---- MODULE Spec2Model ----
(***************************************************************************)
(* A model of circkit / wboxkit: circuits as DAGs of operation nodes, the  *)
(* operation instantiation pipeline, the in-place rewrites, the evaluator, *)
(* reapply / compose, the ISW transformer and the bytecode serializer.     *)
(*                                                                         *)
(* Python objects are modelled by references: a circuit owns a heap (the   *)
(* sequence of every Node object ever constructed for it, indexed by its   *)
(* reference 1..Len(heap)); the node list, the input list and the output   *)
(* list are sequences of references.  Node.id is a field of the node and   *)
(* is distinct from its reference (in_place_renumerate rewrites ids).      *)
(***************************************************************************)
EXTENDS Integers, Sequences, FiniteSets, TLC

(***************************************************************************)
(* Bounds of the model.                                                    *)
(***************************************************************************)
\* Node objects ever constructed in the circuit under construction.
MaxNodes == 3
\* Length of the output list of the circuit under construction.
MaxOutputs == 1
MaxInputs == 2

(***************************************************************************)
(* Generic helpers on sequences.                                           *)
(***************************************************************************)
Range(s) == {s[i] : i \in DOMAIN s}

InSeq(x, s) == \E i \in DOMAIN s : s[i] = x

Count(x, s) == Cardinality({i \in DOMAIN s : s[i] = x})

Repeat(x, n) == [i \in 1..n |-> x]

Distinct(s) == \A i, j \in DOMAIN s : i # j => s[i] # s[j]

RECURSIVE SeqSum(_)
SeqSum(s) == IF s = <<>> THEN 0 ELSE s[1] + SeqSum(Tail(s))

\* All tuples of length n over the set S.
Tuples(S, n) == [1..n -> S]

(***************************************************************************)
(* Circuit flavors and their class-level switches.                         *)
(***************************************************************************)
BooleanFlavors == {"BooleanCircuit", "OptBooleanCircuit"}

ArithmeticFlavors == {"ArithmeticCircuit", "OptArithmeticCircuit"}

OptFlavors == {"OptBooleanCircuit", "OptArithmeticCircuit"}

CACHE_NODES(C) == C.cls \in OptFlavors

PRECOMPUTE_CONSTANT_OPERATIONS(C) == C.cls \in OptFlavors

(***************************************************************************)
(* Operation classes: arity, symmetry, precomputability, evaluation.       *)
(***************************************************************************)
n_inputs(op) ==
    CASE op \in {"INPUT", "CONST", "RND"} -> 0
      [] op \in {"NOT", "NEG", "ROL", "ROR", "GET"} -> 1
      [] OTHER -> 2

SYMMETRIC(op) == op \in {"AND", "OR", "XOR", "ADD", "MUL"}

PRECOMPUTABLE(op) == op \notin {"INPUT", "RND"}

\* Operation.eval of the boolean operations on bits and of the arithmetic
\* operations on elements of the base ring Z_m (m = modulus).
OpEval(op, a, m) ==
    CASE op = "AND" -> a[1] * a[2]
      [] op = "OR"  -> a[1] + a[2] - a[1] * a[2]
      [] op = "XOR" -> (a[1] + a[2]) % 2
      [] op = "NOT" -> (1 + a[1]) % 2
      [] op = "ADD" -> (a[1] + a[2]) % m
      [] op = "SUB" -> (a[1] - a[2]) % m
      [] op = "MUL" -> (a[1] * a[2]) % m
      [] op = "NEG" -> (0 - a[1]) % m

\* Operation._cache_key: the operation name and its parameter values
\* (INPUT has the parameter name, CONST the parameter value).
OpCacheKey(op, name, value) == <<op, name, value>>

(***************************************************************************)
(* Circuit and Node objects.                                               *)
(***************************************************************************)
\* Circuit.clear and INPUT.on_new_circuit: the state after construction.
NewCircuit(cls, modulus) ==
    [cls |-> cls, modulus |-> modulus,
     heap |-> <<>>, nodes |-> <<>>, inputs |-> <<>>, outputs |-> <<>>,
     input_id |-> {}, output_ids |-> {},
     node_counter |-> 0,
     input_names |-> {}, unnamed_input_counter |-> 0,
     nodes_cache |-> {},
     info |-> {}, inheritance |-> {},
     location |-> <<>>]

\* The placeholder of a variable that holds no circuit.
NoCircuit == NewCircuit("", 0)

\* Circuit.clone_empty: a new circuit of the same class and base ring.
clone_empty(C) == NewCircuit(C.cls, C.modulus)

n_inputs_of(C) == Len(C.inputs)

n_outputs_of(C) == Len(C.outputs)

\* ConstManager.create: the boolean manager rejects values outside {0,1};
\* the arithmetic manager maps an integer into the base ring.
ConstValid(C, v) == C.cls \in BooleanFlavors => v \in {0, 1}

ConstCreate(C, v) == IF C.cls \in BooleanFlavors THEN v ELSE v % C.modulus

\* Results of a call that may raise: the circuit after the call, whether
\* it returned, the exception raised otherwise, and the returned node.
Raise(C, e) == [circ |-> C, ok |-> FALSE, err |-> e, node |-> 0]

Return(C, n) == [circ |-> C, ok |-> TRUE, err |-> "", node |-> n]

\* The variant that records no back-edge.
add_outgoing_dropped(parent, ref, times) == parent

\* Node.add_outgoing: append the new node to the back-edge list of a parent,
\* once per occurrence of the parent among the new node's incoming nodes.
add_outgoing(parent, ref, times) ==
    [parent EXCEPT !.outgoing = @ \o Repeat(ref, times)]

\* Node.__init__ followed by Circuit.add_node: take the next id, freeze the
\* incoming tuple, add the back-edges, append the node to the node list and
\* register it as an input when its operation is INPUT.
\* Circuit._register_input_node: the position map _input_id, a dict node ->
\* position kept here as a set of <<node, position>> pairs, takes the
\* length of the input list as the node's position (replacing an older
\* entry of the node), and the node is appended to the list.
register_input_node(C, node) ==
    [C EXCEPT !.input_id = {e \in @ : e[1] # node} \cup {<<node, Len(C.inputs)>>},
              !.inputs = Append(@, node)]

\* Circuit._register_output_node: the position map _output_ids, a dict
\* node -> list of positions kept here as a set of <<node, position>>
\* pairs, gains the length of the output list under the node.
register_output_node(C, node) ==
    [C EXCEPT !.output_ids = @ \cup {<<node, Len(C.outputs)>>},
              !.outputs = Append(@, node)]

\* Node() and Circuit.add_node: the node takes the circuit's current
\* location (TRACK_PATH is True in every circuit class), joins the node list
\* and its incoming nodes' outgoing lists; an INPUT node is registered as by
\* _register_input_node.
NewNode(C, op, name, value, inc) ==
    LET ref  == Len(C.heap) + 1
        node == [id |-> C.node_counter, op |-> op, name |-> name,
                 value |-> value, incoming |-> inc, outgoing |-> <<>>,
                 location |-> C.location]
        heap == [r \in 1..ref |->
                   IF r = ref THEN node
                   ELSE IF InSeq(r, inc)
                        THEN add_outgoing(C.heap[r], ref, Count(r, inc))
                        ELSE C.heap[r]]
    IN [C EXCEPT !.heap = heap,
                 !.node_counter = @ + 1,
                 !.nodes = Append(@, ref),
                 !.inputs = IF op = "INPUT" THEN Append(@, ref) ELSE @,
                 !.input_id = IF op = "INPUT" THEN @ \cup {<<ref, Len(C.inputs)>>} ELSE @]

\* The strong references of the Python object graph: a node not reachable
\* from the circuit's lists (or from a node the client still holds) through
\* incoming / outgoing may have been garbage collected, and its entry of
\* the weak-valued node cache is then gone.
RECURSIVE Closure(_, _)
Closure(heap, S) ==
    LET T == S \cup UNION {Range(heap[r].incoming) \cup Range(heap[r].outgoing)
                           : r \in S}
    IN IF T = S THEN S ELSE Closure(heap, T)

Collectable(C, held) ==
    (1..Len(C.heap)) \ Closure(C.heap, Range(C.nodes) \cup Range(C.inputs)
                                       \cup Range(C.outputs) \cup held)

\* The key of the node cache: the ids of the incoming nodes (sorted for a
\* symmetric operation) and the operation's cache key.
NodeCacheKey(C, op, name, value, inc) ==
    LET ids == [i \in DOMAIN inc |-> C.heap[inc[i]].id]
    IN [ids |-> IF SYMMETRIC(op) THEN SortSeq(ids, LAMBDA a, b : a < b) ELSE ids,
        opkey |-> OpCacheKey(op, name, value)]

CacheHits(C, key) ==
    {e \in C.nodes_cache : e.ids = key.ids /\ e.opkey = key.opkey}

\* Operation.__call__ after the incoming values have been turned into nodes:
\* constant folding, the node cache probe, the validation hook, the node's
\* construction and the cache insert.  dead is the set of collected nodes.
CallOnNodes(C, op, name, value, inc, dead) ==
    LET key  == NodeCacheKey(C, op, name, value, inc)
        hits == {e \in CacheHits(C, key) : e.node \notin dead}
    IN IF /\ PRECOMPUTE_CONSTANT_OPERATIONS(C)
          /\ PRECOMPUTABLE(op) /\ inc # <<>>
          /\ \A i \in DOMAIN inc : C.heap[inc[i]].op = "CONST"
       THEN \* self.eval(...) succeeds, then self.circuit does not exist;
            \* the eval of GET subscripts a constant and fails itself
            Raise(C, IF op = "GET" THEN "TypeError" ELSE "AttributeError")
       ELSE IF CACHE_NODES(C) /\ hits # {}
       THEN Return(C, (CHOOSE e \in hits : TRUE).node)
       ELSE IF op = "INPUT" /\ name \in C.input_names
       THEN Raise(C, "KeyError")
       ELSE IF op = "GET"
       THEN \* GET.before_create_node: every node of these circuits has
            \* n_outputs = UNIT
            Raise(C, "TypeError")
       ELSE LET C1 == IF op = "INPUT"
                      THEN [C EXCEPT !.input_names = @ \cup {name}]
                      ELSE C
                C2 == NewNode(C1, op, name, value, inc)
                ref == Len(C2.heap)
                C3 == IF CACHE_NODES(C)
                      THEN [C2 EXCEPT !.nodes_cache =
                              (@ \ CacheHits(C, key)) \cup
                              {[ids |-> key.ids, opkey |-> key.opkey,
                                node |-> ref]}]
                      ELSE C2
            IN Return(C3, ref)

\* Circuit.add_const: CONST(value)(); the parameter goes through the
\* constant manager when the operation instance is built.
add_const(C, v, dead) ==
    IF ~ConstValid(C, v) THEN Raise(C, "ValueError")
    ELSE CallOnNodes(C, "CONST", "", ConstCreate(C, v), <<>>, dead)

\* An argument of an operation call: a node of this circuit, a literal or
\* a node of another circuit.
NodeArg(r) == [kind |-> "node", v |-> r]

ForeignArg == [kind |-> "foreign", v |-> 0]

LitArg(v) == [kind |-> "lit", v |-> v]

\* The loop of Operation.__call__ that wraps every literal argument into a
\* CONST node, in argument order, and raises TypeError at a node of another
\* circuit.  acc is the list of nodes so far.
RECURSIVE WrapArgs(_, _, _, _)
WrapArgs(C, args, acc, dead) ==
    IF args = <<>> THEN [circ |-> C, ok |-> TRUE, err |-> "", incoming |-> acc]
    ELSE LET a == Head(args)
         IN IF a.kind = "node"
            THEN WrapArgs(C, Tail(args), Append(acc, a.v), dead)
            ELSE IF a.kind = "foreign"
            THEN [circ |-> C, ok |-> FALSE, err |-> "TypeError", incoming |-> acc]
            ELSE LET r == add_const(C, a.v, dead)
                 IN IF ~r.ok
                    THEN [circ |-> r.circ, ok |-> FALSE, err |-> r.err,
                          incoming |-> acc]
                    ELSE WrapArgs(r.circ, Tail(args), Append(acc, r.node), dead)

\* Operation.__call__: arity check, wrapping of literals, then the rest.
OperationCall(C, op, name, value, args, dead) ==
    IF n_inputs(op) # Len(args) THEN Raise(C, "TypeError")
    ELSE LET w == WrapArgs(C, args, <<>>, dead)
         IN IF ~w.ok THEN Raise(w.circ, w.err)
            ELSE CallOnNodes(w.circ, op, name, value, w.incoming, dead)

\* A name generator that takes the name at the counter, taken or not.
UnnamedInputName_no_skip(names, k) ==
    [name |-> "x" \o ToString(k), counter |-> k + 1]

\* INPUT._get_unnamed_input_name: the first name x<k>, k counting up from
\* the circuit's counter, that is not an input name; the counter moves past it.
RECURSIVE UnnamedInputName(_, _)
UnnamedInputName(names, k) ==
    LET name == "x" \o ToString(k)
    IN IF name \notin names THEN [name |-> name, counter |-> k + 1]
       ELSE UnnamedInputName(names, k + 1)

\* The value of the name argument that stands for Python's None.
NoName == ""

\* Circuit.add_input: INPUT(name)().
add_input(C, name, dead) ==
    IF name = NoName
    THEN LET u == UnnamedInputName(C.input_names, C.unnamed_input_counter)
             C1 == [C EXCEPT !.unnamed_input_counter = u.counter]
         IN OperationCall(C1, "INPUT", u.name, 0, <<>>, dead)
    ELSE OperationCall(C, "INPUT", name, 0, <<>>, dead)

\* Circuit.add_output of a single-valued node or of a bare value.
add_output(C, arg, dead) ==
    IF arg.kind = "node"
    THEN Return(register_output_node(C, arg.v), arg.v)
    ELSE LET r == add_const(C, arg.v, dead)
         IN IF ~r.ok THEN r
            ELSE Return(register_output_node(r.circ, r.node), r.node)

(***************************************************************************)
(* circkit.bitwise: BitwiseRing, Word and the rotations of BitwiseCircuit. *)
(***************************************************************************)
\* Python's a | b on non-negative integers.
RECURSIVE BitOr(_, _)
BitOr(a, b) ==
    IF a = 0 THEN b
    ELSE IF b = 0 THEN a
    ELSE (IF a % 2 = 1 \/ b % 2 = 1 THEN 1 ELSE 0) + 2 * BitOr(a \div 2, b \div 2)

\* Word.__init__: value & mask, mask = (1 << word_size) - 1.
Word(value, word_size) == value % (2 ^ word_size)

\* A rotation that drops the bits shifted out of the word.
rol_dropping(value, v, word_size) ==
    Word(value * (2 ^ (v % word_size)), word_size)

\* Word.rol: v = v % w; (value << v) | (value >> (w - v)), wrapped.
rol(value, v, word_size) ==
    LET v1 == v % word_size
    IN Word(BitOr(value * (2 ^ v1), value \div (2 ^ (word_size - v1))), word_size)

\* Word.ror: v = v % w; (value >> v) | (value << (w - v)), wrapped.
ror(value, v, word_size) ==
    LET v1 == v % word_size
    IN Word(BitOr(value \div (2 ^ v1), value * (2 ^ (word_size - v1))), word_size)

\* BitwiseCircuit.word_size of a circuit over the ring of 2^w words.
word_size_of(C) == CHOOSE w \in 1..C.modulus : 2 ^ w = C.modulus

(***************************************************************************)
(* Circuit.evaluate.                                                       *)
(***************************************************************************)
\* The marker of a memory slot that holds no value yet (a missing dict key).
NoValue == 0 - 1

EvalRaise(e) == [ok |-> FALSE, err |-> e, out |-> <<>>]

\* The position of the last occurrence of r in s (dict(zip(...)) keeps the
\* last value of a repeated key).
LastIndex(r, s) == CHOOSE i \in DOMAIN s : s[i] = r /\ \A j \in DOMAIN s : s[j] = r => j <= i

\* The loop over the node list: INPUT nodes are skipped, every other node
\* takes the values of its incoming nodes from mem (KeyError when one has
\* no value) and stores the value of its operation.  rnd gives the value
\* drawn by each RND node in this evaluation.
RECURSIVE EvalNodes(_, _, _, _)
EvalNodes(C, mem, i, rnd) ==
    IF i > Len(C.nodes) THEN [ok |-> TRUE, mem |-> mem]
    ELSE LET r == C.nodes[i]
             n == C.heap[r]
         IN IF n.op = "INPUT" THEN EvalNodes(C, mem, i + 1, rnd)
            ELSE IF \E k \in DOMAIN n.incoming : mem[n.incoming[k]] = NoValue
            THEN [ok |-> FALSE, mem |-> mem]
            ELSE LET args == [k \in DOMAIN n.incoming |-> mem[n.incoming[k]]]
                     v == CASE n.op = "CONST" -> n.value
                            [] n.op = "RND" -> rnd[r]
                            [] n.op = "ROL" -> rol(args[1], n.value, word_size_of(C))
                            [] n.op = "ROR" -> ror(args[1], n.value, word_size_of(C))
                            [] OTHER -> OpEval(n.op, args, C.modulus)
                 IN EvalNodes(C, [mem EXCEPT ![r] = v], i + 1, rnd)

evaluate(C, input, rnd) ==
    IF Len(input) # Len(C.inputs) THEN EvalRaise("ValueError")
    ELSE IF \E i \in DOMAIN input : ~ConstValid(C, input[i])
    THEN EvalRaise("ValueError")
    ELSE LET mem0 == [r \in 1..Len(C.heap) |->
                        IF InSeq(r, C.inputs)
                        THEN ConstCreate(C, input[LastIndex(r, C.inputs)])
                        ELSE NoValue]
             run == EvalNodes(C, mem0, 1, rnd)
         IN IF ~run.ok THEN EvalRaise("KeyError")
            ELSE IF \E i \in DOMAIN C.outputs : run.mem[C.outputs[i]] = NoValue
            THEN EvalRaise("KeyError")
            ELSE [ok |-> TRUE, err |-> "",
                  out |-> [i \in DOMAIN C.outputs |-> run.mem[C.outputs[i]]]]

\* The values an input of the circuit may take.
Values(C) == 0..(C.modulus - 1)

InputVectors(C) == Tuples(Values(C), Len(C.inputs))

\* Evaluation of a circuit without RND nodes.
NoRnd == <<>>

(***************************************************************************)
(* In-place rewrites.                                                      *)
(***************************************************************************)
\* The reverse breadth-first search of in_place_remove_unused_nodes.
RECURSIVE Ancestors(_, _)
Ancestors(heap, S) ==
    LET T == S \cup UNION {Range(heap[r].incoming) : r \in S}
    IN IF T = S THEN S ELSE Ancestors(heap, T)

in_place_remove_unused_nodes(C) ==
    LET used == Ancestors(C.heap, Range(C.inputs) \cup Range(C.outputs))
    IN IF Cardinality(used) = Len(C.nodes) THEN C
       ELSE LET nodes == SelectSeq(C.nodes, LAMBDA r : r \in used)
                heap == [r \in 1..Len(C.heap) |->
                           IF InSeq(r, nodes)
                           THEN [C.heap[r] EXCEPT !.outgoing =
                                   SelectSeq(@, LAMBDA o : o \in used)]
                           ELSE C.heap[r]]
            IN [C EXCEPT !.nodes = nodes, !.heap = heap]

in_place_renumerate(C) ==
    [C EXCEPT !.heap = [r \in 1..Len(C.heap) |->
                          IF InSeq(r, C.nodes)
                          THEN [C.heap[r] EXCEPT !.id = LastIndex(r, C.nodes) - 1]
                          ELSE C.heap[r]]]

\* The for loops of the two reorderings: register the nodes one by one.
RECURSIVE RegisterInputs(_, _)
RegisterInputs(C, nodes) ==
    IF nodes = <<>> THEN C
    ELSE RegisterInputs(register_input_node(C, Head(nodes)), Tail(nodes))

RECURSIVE RegisterOutputs(_, _)
RegisterOutputs(C, nodes) ==
    IF nodes = <<>> THEN C
    ELSE RegisterOutputs(register_output_node(C, Head(nodes)), Tail(nodes))

\* in_place_reorder_inputs: ValueError unless the given list has the length
\* and the set of the input list; then the list and the position map are
\* cleared and the given nodes registered in turn.
in_place_reorder_inputs(C, inputs) ==
    IF Len(inputs) # Len(C.inputs) \/ Range(inputs) # Range(C.inputs)
    THEN Raise(C, "ValueError")
    ELSE Return(RegisterInputs([C EXCEPT !.inputs = <<>>, !.input_id = {}], inputs), 0)

\* in_place_reorder_outputs: ValueError unless the given list has the
\* length and the set of the output list; then the list and the position
\* map are cleared and the given nodes registered in turn.
in_place_reorder_outputs(C, outputs) ==
    IF Len(outputs) # Len(C.outputs) \/ Range(outputs) # Range(C.outputs)
    THEN Raise(C, "ValueError")
    ELSE Return(RegisterOutputs([C EXCEPT !.outputs = <<>>, !.output_ids = {}], outputs), 0)

in_place_reorder_inputs_first(C) ==
    LET order == C.inputs \o SelectSeq(C.nodes, LAMBDA r : C.heap[r].op # "INPUT")
    IN IF Len(order) # Len(C.nodes) THEN Raise(C, "AssertionError")
       ELSE Return([C EXCEPT !.nodes = order], 0)

(***************************************************************************)
(* in_place_remove_duplicate_nodes.                                        *)
(***************************************************************************)
\* node_inc: the ids of the incoming nodes, sorted for a symmetric operation.
node_inc(heap, r) ==
    LET inc == [i \in DOMAIN heap[r].incoming |-> heap[heap[r].incoming[i]].id]
    IN IF SYMMETRIC(heap[r].op) THEN SortSeq(inc, LAMBDA a, b : a < b) ELSE inc

\* Keys of the Python dict seen.  The 128-bit integer h is built from the
\* hash of (operation cache key, node_inc); it is modelled by that pair
\* itself (no hash collisions).  A Node hashes by its id and is equal only
\* to itself, so a Node key is never equal to an integer key.
IntKey(h) == [type |-> "int", val |-> h]

NodeKey(r) == [type |-> "Node", val |-> r]

PyKeyEq(k1, k2) == k1.type = k2.type /\ k1.val = k2.val

DictHas(d, k) == \E e \in d : PyKeyEq(e.key, k)

DictGet(d, k) == (CHOOSE e \in d : PyKeyEq(e.key, k)).node

DictSet(d, k, r) == {e \in d : ~PyKeyEq(e.key, k)} \cup {[key |-> k, node |-> r]}

\* The variant that probes the dict with the hash h.
ProbeKeyByHash(node, h) == IntKey(h)

\* The key of the probes "node in seen" and "seen[node]": the node itself.
ProbeKey(node, h) == NodeKey(node)

Replace(s, old, new) == [i \in DOMAIN s |-> IF s[i] = old THEN new ELSE s[i]]

\* The re-wiring of a duplicate node onto node0.  The first loop rewrites
\* the outgoing list of every parent; the second loop computes the rewritten
\* incoming tuple of every successor and stores it in sub, the variable the
\* first loop left behind (unbound when no first loop has iterated yet).
RECURSIVE RewireParents(_, _, _, _)
RewireParents(heap, subs, node, node0) ==
    IF subs = <<>> THEN heap
    ELSE RewireParents(
           [heap EXCEPT ![Head(subs)].outgoing = Replace(@, node, node0)],
           Tail(subs), node, node0)

RECURSIVE RewireSuccessors(_, _, _, _, _)
RewireSuccessors(heap, outs, node, node0, sub) ==
    IF outs = <<>> THEN [ok |-> TRUE, heap |-> heap]
    ELSE IF sub = 0 THEN [ok |-> FALSE, heap |-> heap]
    ELSE RewireSuccessors(
           [heap EXCEPT ![sub].incoming =
              Replace(heap[Head(outs)].incoming, node, node0)],
           Tail(outs), node, node0, sub)

\* The loop over the node list.  st holds the heap, the dict seen, the list
\* new_order, the loop variable sub (0: unbound) and the exception raised.
RECURSIVE DuplicateScan(_, _, _)
DuplicateScan(nodes, i, st) ==
    IF i > Len(nodes) \/ st.err # "" THEN st
    ELSE LET node == nodes[i]
             n == st.heap[node]
             h == <<OpCacheKey(n.op, n.name, n.value), node_inc(st.heap, node)>>
             k == ProbeKey(node, h)
         IN IF DictHas(st.seen, k)
            THEN LET node0 == DictGet(st.seen, k)
                     n0 == st.heap[node0]
                 IN IF \/ OpCacheKey(n0.op, n0.name, n0.value)
                              # OpCacheKey(n.op, n.name, n.value)
                       \/ node_inc(st.heap, node0) # node_inc(st.heap, node)
                    THEN [st EXCEPT !.err = "RuntimeError"]
                    ELSE LET heap1 == RewireParents(st.heap, n.incoming, node, node0)
                             sub == IF n.incoming = <<>> THEN st.sub
                                    ELSE n.incoming[Len(n.incoming)]
                             rw == RewireSuccessors(heap1, heap1[node].outgoing,
                                                    node, node0, sub)
                         IN DuplicateScan(nodes, i + 1,
                               [st EXCEPT !.heap = rw.heap, !.sub = sub,
                                  !.err = IF rw.ok THEN "" ELSE "UnboundLocalError"])
            ELSE DuplicateScan(nodes, i + 1,
                   [st EXCEPT !.seen = DictSet(@, IntKey(h), node),
                              !.new_order = Append(@, node)])

in_place_remove_duplicate_nodes(C) ==
    LET st == DuplicateScan(C.nodes, 1,
                 [heap |-> C.heap, seen |-> {}, new_order |-> <<>>,
                  sub |-> 0, err |-> ""])
    IN IF st.err # "" THEN Raise([C EXCEPT !.heap = st.heap], st.err)
       ELSE Return([C EXCEPT !.heap = st.heap, !.nodes = st.new_order], 0)

(***************************************************************************)
(* Rebuilding: Node.reapply, Circuit.reapply, Circuit.compose.             *)
(***************************************************************************)
\* The loop of Circuit.reapply over the node list of the source circuit S:
\* a node of the replacement map rep is mapped to its image, every other
\* node is rebuilt in the target T by applying its operation (same name,
\* same parameters) to the images of its incoming nodes.  Both branches
\* hand the node info to the image with is_output = True (circuit.py:680,
\* node.py:227).  m maps source
\* references to target references (0: not mapped yet).
\* NodeInfoMapper.inherit_to_node: the node info storage of a circuit is the
\* set info of the entries [node, key, value] and the set inheritance of the
\* registered policies [key, only_output].  For every key of the node that
\* has a policy in the circuit S of the node, the policy is registered in
\* the circuit T of new_node, and the value is stored on new_node when the
\* policy has not only_output or is_output holds.
inherit_to_node(S, node, T, new_node, is_output) ==
    LET keys == {e.key : e \in {e \in S.info : e.node = node}}
                \cap {p.key : p \in S.inheritance}
        carried == {p.key : p \in {p \in S.inheritance :
                                     p.key \in keys /\ (~p.only_output \/ is_output)}}
    IN [T EXCEPT
          !.inheritance = {p \in @ : p.key \notin keys}
                          \cup {p \in S.inheritance : p.key \in keys},
          !.info = {e \in @ : ~(e.node = new_node /\ e.key \in carried)}
                   \cup {[node |-> new_node, key |-> e.key, value |-> e.value] :
                           e \in {e \in S.info : e.node = node /\ e.key \in carried}}]

RECURSIVE ReapplyNodes(_, _, _, _, _)
ReapplyNodes(S, T, rep, m, i) ==
    IF i > Len(S.nodes) THEN [circ |-> T, ok |-> TRUE, err |-> "", m |-> m]
    ELSE LET r == S.nodes[i]
             n == S.heap[r]
         IN IF rep[r] # 0
            THEN ReapplyNodes(S, inherit_to_node(S, r, T, rep[r], TRUE), rep,
                              [m EXCEPT ![r] = rep[r]], i + 1)
            ELSE IF \E k \in DOMAIN n.incoming : m[n.incoming[k]] = 0
            THEN [circ |-> T, ok |-> FALSE, err |-> "KeyError", m |-> m]
            ELSE CHOOSE res \in
                   { IF ~c.ok
                     THEN [circ |-> c.circ, ok |-> FALSE, err |-> c.err, m |-> m]
                     ELSE ReapplyNodes(S, inherit_to_node(S, r, c.circ, c.node, TRUE),
                                       rep, [m EXCEPT ![r] = c.node], i + 1) :
                     c \in { OperationCall(T, n.op, n.name, n.value,
                                [k \in DOMAIN n.incoming |-> NodeArg(m[n.incoming[k]])],
                                {}) } } : TRUE

RECURSIVE AddOutputs(_, _)
AddOutputs(T, refs) ==
    IF refs = <<>> THEN T
    ELSE CHOOSE res \in
           { AddOutputs(c.circ, Tail(refs)) :
             c \in { add_output(T, NodeArg(Head(refs)), {}) } } : TRUE

\* Circuit.reapply(circuit, input, do_output).  input is the empty sequence
\* (no replacement) or a sequence of target nodes, one per input of S.
reapply(S, T, input, do_output) ==
    IF input # <<>> /\ Len(input) # Len(S.inputs)
    THEN [circ |-> T, ok |-> FALSE, err |-> "ValueError",
          m |-> [r \in 1..Len(S.heap) |-> 0]]
    ELSE LET rep == [r \in 1..Len(S.heap) |->
                       IF input # <<>> /\ InSeq(r, S.inputs)
                       THEN input[LastIndex(r, S.inputs)] ELSE 0]
             run == ReapplyNodes(S, T, rep, [r \in 1..Len(S.heap) |-> 0], 1)
         IN IF ~run.ok \/ ~do_output THEN run
            ELSE IF \E i \in DOMAIN S.outputs : run.m[S.outputs[i]] = 0
            THEN [run EXCEPT !.ok = FALSE, !.err = "KeyError"]
            ELSE [run EXCEPT !.circ =
                    AddOutputs(run.circ, [i \in DOMAIN S.outputs |-> run.m[S.outputs[i]]])]

\* Circuit.compose(self, *circuits): "circuits[::-1]" is a tuple and a tuple
\* has no append, so the second statement raises AttributeError before any
\* circuit is built; the rest of the body is never executed.
compose(S, circuits) ==
    [circ |-> NoCircuit, ok |-> FALSE, err |-> "AttributeError"]

(***************************************************************************)
(* Specification Spec: a client builds a boolean circuit (plain or         *)
(* optimized) through the construction API, rewrites it in place, rebuilds *)
(* it with reapply and composes it.                                        *)
(***************************************************************************)
VARIABLES
    circ,   \* the circuit under construction
    saved,  \* the circuit as it was before the last in-place rewrite, or
            \* the second operand of the last compose
    built,  \* the circuit built by the last reapply / compose
    last,   \* the last call: its name, its operands, the peephole rule it
            \* applied, whether it returned, the exception it raised, the
            \* node it returned
    ser,    \* the attributes of the RawSerializer object
    blocks  \* the with_location blocks the client is inside, outermost
            \* first: the token and the prev_location each one holds

vars == <<circ, saved, built, last, ser, blocks>>

\* Explicit input names the client uses.
InputNames == {"a"}

\* Operations the client applies to nodes.
Ops == {"AND", "NOT"}

Call(op, ok, err, node) ==
    [op |-> op, args |-> <<>>, rule |-> "", ok |-> ok, err |-> err, node |-> node]

\* A serializer that has not been handed a circuit.
NoSer ==
    [phase |-> "idle", pos |-> 0, free |-> <<>>, bit_id |-> <<>>,
     ram_size |-> 0, code |-> <<>>, n_used |-> <<>>, info |-> <<>>,
     input_addr |-> <<>>, output_addr |-> <<>>, header |-> <<>>, err |-> ""]

Init ==
    /\ circ \in {NewCircuit(cls, 2) : cls \in BooleanFlavors}
    /\ saved = NoCircuit
    /\ built = NoCircuit
    /\ last = Call("init", TRUE, "", 0)
    /\ ser = NoSer
    /\ blocks = <<>>

\* The node the client received from the last call and still holds.
Held == IF last.ok /\ last.node # 0 THEN {last.node} ELSE {}

\* The nodes the client passes to the library: the nodes of the node list
\* and the node the library returned last.
Usable == Range(circ.nodes) \cup Held

\* The nodes that are gone from the weak-valued node cache at a call: none,
\* when the client still holds a reference to every node it was given (or
\* the collector has not run), or every node that is reachable neither from
\* the circuit nor from the node returned last, when the client dropped its
\* other references and the collector has run.
DeadChoices == {{}, Collectable(circ, Held)}

Construct(op, r) ==
    /\ circ' = r.circ
    /\ last' = Call(op, r.ok, r.err, r.node)
    /\ saved' = NoCircuit
    /\ built' = NoCircuit
    /\ UNCHANGED <<ser, blocks>>

AddInput ==
    /\ Len(circ.heap) < MaxNodes
    /\ Len(circ.inputs) < MaxInputs
    /\ \E name \in InputNames \cup {NoName}, dead \in DeadChoices :
          Construct("add_input", add_input(circ, name, dead))

AddConst ==
    /\ Len(circ.heap) < MaxNodes
    /\ \E v \in {1}, dead \in DeadChoices :
          Construct("add_const", add_const(circ, v, dead))

ApplyOperation ==
    /\ Len(circ.heap) < MaxNodes
    /\ \E op \in Ops, dead \in DeadChoices :
          \E inc \in Tuples(Usable, n_inputs(op)) :
             Construct(op, OperationCall(circ, op, "", 0,
                              [i \in DOMAIN inc |-> NodeArg(inc[i])], dead))

AddOutput ==
    /\ Len(circ.outputs) < MaxOutputs
    /\ \E r \in Usable :
          Construct("add_output", add_output(circ, NodeArg(r), {}))

Rewrite(op, before, r) ==
    /\ circ' = r.circ
    /\ last' = Call(op, r.ok, r.err, 0)
    /\ saved' = before
    /\ built' = NoCircuit
    /\ UNCHANGED <<ser, blocks>>

RemoveUnused ==
    Rewrite("in_place_remove_unused_nodes", circ,
            Return(in_place_remove_unused_nodes(circ), 0))

RemoveDuplicate ==
    Rewrite("in_place_remove_duplicate_nodes", circ,
            in_place_remove_duplicate_nodes(circ))

Renumerate ==
    Rewrite("in_place_renumerate", NoCircuit,
            Return(in_place_renumerate(circ), 0))

ReorderInputs ==
    \E p \in Tuples(Range(circ.inputs), Len(circ.inputs)) :
       /\ p # circ.inputs
       /\ Rewrite("in_place_reorder_inputs", NoCircuit,
                  in_place_reorder_inputs(circ, p))

ReorderInputsFirst ==
    Rewrite("in_place_reorder_inputs_first", NoCircuit,
            in_place_reorder_inputs_first(circ))

Reapply ==
    /\ last.op # "reapply"
    /\ LET r == reapply(circ, clone_empty(circ), <<>>, TRUE)
       IN /\ built' = r.circ
          /\ last' = Call("reapply", r.ok, r.err, 0)
          /\ UNCHANGED <<circ, saved, ser, blocks>>

Compose ==
    /\ last.op # "compose"
    /\ \E A \in {circ} \cup (IF last.op = "reapply" /\ last.ok THEN {built} ELSE {}) :
         /\ Len(A.inputs) = Len(circ.outputs)
         /\ LET r == compose(circ, <<A>>)
            IN /\ built' = r.circ
               /\ saved' = A
               /\ last' = Call("compose", r.ok, r.err, 0)
               /\ UNCHANGED <<circ, ser, blocks>>

Next ==
    \/ AddInput
    \/ AddConst
    \/ ApplyOperation
    \/ AddOutput
    \/ RemoveUnused
    \/ RemoveDuplicate
    \/ Renumerate
    \/ ReorderInputs
    \/ ReorderInputsFirst
    \/ Reapply
    \/ Compose

Spec == Init /\ [][Next]_vars

(***************************************************************************)
(* Properties of the construction API and the in-place rewrites.           *)
(***************************************************************************)
NodeOf(r) == circ.heap[r]

\* C1: after any sequence of node constructions and in-place rewrites the
\* ids of the nodes of the node list are pairwise distinct and every
\* incoming node of a node of the list occurs earlier in the list.
C1_NodeListWellFormed ==
    /\ \A i, j \in DOMAIN circ.nodes :
          i # j => NodeOf(circ.nodes[i]).id # NodeOf(circ.nodes[j]).id
    /\ \A i \in DOMAIN circ.nodes :
          \A k \in DOMAIN NodeOf(circ.nodes[i]).incoming :
             \E j \in 1..(i - 1) :
                circ.nodes[j] = NodeOf(circ.nodes[i]).incoming[k]

\* C2: for all nodes u and v of the node list, v is in u.outgoing exactly
\* when u is in v.incoming.
C2_EdgesAgree ==
    \A u, v \in Range(circ.nodes) :
       InSeq(v, NodeOf(u).outgoing) <=> InSeq(u, NodeOf(v).incoming)

\* C2 witness: in_place_remove_unused_nodes has just removed a node and the
\* node list still holds an edge.
C2_Witness ==
    /\ last.op = "in_place_remove_unused_nodes"
    /\ \E r \in 1..Len(circ.heap) : ~InSeq(r, circ.nodes)
    /\ \E u, v \in Range(circ.nodes) : InSeq(u, NodeOf(v).incoming)

SameBehaviour(A, B) ==
    /\ n_inputs_of(A) = n_inputs_of(B)
    /\ n_outputs_of(A) = n_outputs_of(B)
    /\ \A x \in InputVectors(A) : evaluate(A, x, NoRnd) = evaluate(B, x, NoRnd)

\* C7: C.reapply(C.clone_empty()) returns a circuit with the same number of
\* inputs and outputs and the same outputs as C on every input vector, also
\* when the inputs of C were permuted by in_place_reorder_inputs.
C7_ReapplyIdentity ==
    last.op = "reapply" => last.ok /\ SameBehaviour(circ, built)

\* C9: evaluate returns the same outputs on every input vector immediately
\* before and immediately after in_place_remove_duplicate_nodes.
C9_RemoveDuplicateSound ==
    last.op = "in_place_remove_duplicate_nodes" =>
       /\ last.ok
       /\ \A x \in InputVectors(saved) :
             evaluate(circ, x, NoRnd) = evaluate(saved, x, NoRnd)

\* Two nodes of the list with the same operation and the same incoming ids.
HasDuplicates(C) ==
    \E i, j \in DOMAIN C.nodes :
       /\ i < j
       /\ C.heap[C.nodes[i]].op = C.heap[C.nodes[j]].op
       /\ C.heap[C.nodes[i]].op \notin {"INPUT", "CONST"}
       /\ node_inc(C.heap, C.nodes[i]) = node_inc(C.heap, C.nodes[j])

\* C9 witness: the rewrite ran on a circuit that holds a duplicate node which
\* is an output, and the circuit evaluates.
C9_Witness ==
    /\ last.op = "in_place_remove_duplicate_nodes"
    /\ HasDuplicates(saved)
    /\ \E i, j \in DOMAIN saved.nodes :
          /\ i < j
          /\ saved.heap[saved.nodes[i]].op = saved.heap[saved.nodes[j]].op
          /\ node_inc(saved.heap, saved.nodes[i]) = node_inc(saved.heap, saved.nodes[j])
          /\ InSeq(saved.nodes[j], saved.outputs)
    /\ \A x \in InputVectors(saved) : evaluate(saved, x, NoRnd).ok

\* C10: for A with A.n_inputs = S.n_outputs, S.compose(A) returns a circuit
\* with S.n_inputs inputs and A.n_outputs outputs that evaluates on every
\* input x to A.evaluate(S.evaluate(x)).
C10_ComposeSemantics ==
    last.op = "compose" /\ n_inputs_of(circ) > 0 /\ n_outputs_of(circ) > 0 =>
       /\ last.ok
       /\ n_inputs_of(built) = n_inputs_of(circ)
       /\ n_outputs_of(built) = n_outputs_of(saved)
       /\ \A x \in InputVectors(circ) :
             evaluate(circ, x, NoRnd).ok =>
                evaluate(built, x, NoRnd) =
                   evaluate(saved, evaluate(circ, x, NoRnd).out, NoRnd)

(***************************************************************************)
(* wboxkit.serialize: Serializer and RawSerializer.                        *)
(***************************************************************************)
\* Widths of the packed fields (RawSerializer.bytes_op, bytes_addr).
bytes_op == 1
bytes_addr == 2

\* RawSerializer.opmap: the __getitem__ of the opcode dict; 0 stands for the
\* KeyError of a name that is not a key.
opmap(name) ==
    CASE name = "XOR" -> 1
      [] name = "AND" -> 2
      [] name = "OR" -> 3
      [] name = "NOT" -> 4
      [] name = "RANDOM" -> 5
      [] OTHER -> 0

\* Serializer.before_transform: the empty serializer state for circuit C.
before_transform(C) ==
    [phase |-> "visit", pos |-> 1, free |-> <<>>,
     bit_id |-> [r \in 1..Len(C.heap) |-> NoValue],
     ram_size |-> 0, code |-> <<>>,
     n_used |-> [r \in 1..Len(C.heap) |-> 0], info |-> <<>>,
     input_addr |-> <<>>, output_addr |-> <<>>, header |-> <<>>, err |-> ""]

\* An alloc that takes a new cell every time.
alloc_always_grows(S, bit) ==
    [S EXCEPT !.ram_size = @ + 1, !.bit_id[bit] = S.ram_size]

\* Serializer.alloc: pop the free list, growing the RAM by one cell when the
\* list is empty.
alloc(S, bit) ==
    LET free == IF S.free = <<>> THEN <<S.ram_size>> ELSE S.free
        ram  == IF S.free = <<>> THEN S.ram_size + 1 ELSE S.ram_size
    IN [S EXCEPT !.free = SubSeq(free, 1, Len(free) - 1),
                 !.ram_size = ram,
                 !.bit_id[bit] = free[Len(free)]]

SerRaise(S, e) == [S EXCEPT !.phase = "done", !.err = e]

\* An on_free that returns the cell of an output bit as well.
on_free_outputs_too(C, S, bit) ==
    IF S.bit_id[bit] = NoValue THEN SerRaise(S, "AssertionError")
    ELSE [S EXCEPT !.free = Append(@, S.bit_id[bit])]

\* RawSerializer.on_free: an output bit keeps its cell; otherwise
\* Serializer.on_free returns the cell to the free list ("free" is in
\* ignore_ops, so nothing is emitted).
on_free(C, S, bit) ==
    IF InSeq(bit, C.outputs) THEN S
    ELSE IF S.bit_id[bit] = NoValue THEN SerRaise(S, "AssertionError")
    ELSE [S EXCEPT !.free = Append(@, S.bit_id[bit])]

\* RawSerializer.serialize_bit: opcode, destination cell, source cells.
serialize_bit(C, S, bit) ==
    IF opmap(C.heap[bit].op) = 0 THEN SerRaise(S, "KeyError")
    ELSE [S EXCEPT !.code = Append(@,
            <<opmap(C.heap[bit].op), S.bit_id[bit]>> \o
            [k \in DOMAIN C.heap[bit].incoming |->
                S.bit_id[C.heap[bit].incoming[k]]])]

\* The loop of visit_generic over bit.incoming: count the use and free the
\* argument at its last use.
RECURSIVE CountUses(_, _, _)
CountUses(C, S, args) ==
    IF args = <<>> \/ S.err # "" THEN S
    ELSE LET arg == Head(args)
         IN CHOOSE res \in
              { IF S1.n_used[arg] > Len(C.heap[arg].outgoing)
                THEN SerRaise(S1, "AssertionError")
                ELSE IF S1.n_used[arg] = Len(C.heap[arg].outgoing)
                THEN CountUses(C, on_free(C, S1, arg), Tail(args))
                ELSE CountUses(C, S1, Tail(args)) :
                S1 \in { [S EXCEPT !.n_used[arg] = @ + 1] } } : TRUE

\* Serializer.visit_INPUT (serialize_input emits nothing).
visit_INPUT(C, S, bit) == alloc(S, bit)

\* Serializer.visit_generic.
visit_generic(C, S, bit) ==
    CHOOSE res \in
      { IF S1.err # "" THEN S1 ELSE CountUses(C, S1, C.heap[bit].incoming) :
        S1 \in { serialize_bit(C, alloc(S, bit), bit) } } : TRUE

\* The byte length of one packed instruction.
CodeLen(instr) == bytes_op + bytes_addr * (Len(instr) - 1)

\* Transformer.transform after visit_all: make_output on every output, then
\* RawSerializer.after_transform with its two assertions and the header.
after_transform(C, S) ==
    IF \E i \in DOMAIN C.outputs : ~InSeq(C.outputs[i], C.nodes)
    THEN SerRaise(S, "KeyError")
    ELSE LET info == <<n_inputs_of(C), n_outputs_of(C), Len(S.code),
                       SeqSum([i \in DOMAIN S.code |-> CodeLen(S.code[i])]),
                       S.ram_size>>
             ia == [i \in DOMAIN C.inputs |-> S.bit_id[C.inputs[i]]]
             oa == [i \in DOMAIN C.outputs |-> S.bit_id[C.outputs[i]]]
             S1 == [S EXCEPT !.phase = "done", !.info = info,
                             !.input_addr = ia, !.output_addr = oa]
         IN IF \E i \in DOMAIN ia : ia[i] = NoValue THEN SerRaise(S, "KeyError")
            ELSE IF Cardinality(Range(ia)) # n_inputs_of(C)
                    \/ Cardinality(Range(oa)) # n_outputs_of(C)
            THEN [S1 EXCEPT !.err = "AssertionError"]
            ELSE [S1 EXCEPT !.header = <<info, ia, oa>>]

\* One instruction of the emitted program on the RAM.
ExecInstr(ram, instr) ==
    LET a == [k \in 1..(Len(instr) - 2) |-> ram[instr[k + 2]]]
        v == CASE instr[1] = 1 -> OpEval("XOR", a, 2)
               [] instr[1] = 2 -> OpEval("AND", a, 2)
               [] instr[1] = 3 -> OpEval("OR", a, 2)
               [] instr[1] = 4 -> OpEval("NOT", a, 2)
    IN [ram EXCEPT ![instr[2]] = v]

RECURSIVE ExecCode(_, _)
ExecCode(ram, code) ==
    IF code = <<>> THEN ram
    ELSE CHOOSE res \in
           { ExecCode(r, Tail(code)) : r \in { ExecInstr(ram, Head(code)) } } : TRUE

RECURSIVE LoadInputs(_, _, _)
LoadInputs(ram, addr, x) ==
    IF addr = <<>> THEN ram
    ELSE LoadInputs([ram EXCEPT ![Head(addr)] = Head(x)], Tail(addr), Tail(x))

\* Execution of the emitted program: load each input bit into its
\* input-address cell, run the instructions in order, read the
\* output-address cells.
RunProgram(S, x) ==
    LET ram0 == [c \in 0..(S.info[5] - 1) |-> 0]
        ram  == ExecCode(LoadInputs(ram0, S.header[2], x), S.code)
    IN [i \in DOMAIN S.header[3] |-> ram[S.header[3][i]]]

(***************************************************************************)
(* Specification SpecSer: a client builds a boolean circuit, in any         *)
(* insertion order of inputs and gates, and hands it to                    *)
(* RawSerializer.serialize, which visits the node list one node at a time. *)
(***************************************************************************)
\* Node objects of a circuit handed to the serializer.
SerMaxNodes == 4
\* Outputs of a circuit handed to the serializer.
SerMaxOutputs == 2

SerOps == {"XOR", "AND", "OR", "NOT", "RND"}

SerInit ==
    /\ circ = NewCircuit("BooleanCircuit", 2)
    /\ saved = NoCircuit
    /\ built = NoCircuit
    /\ last = Call("init", TRUE, "", 0)
    /\ ser = NoSer
    /\ blocks = <<>>

SerAddInput ==
    /\ ser.phase = "idle"
    /\ Len(circ.heap) < SerMaxNodes
    /\ Construct("add_input", add_input(circ, NoName, {}))

SerApplyOperation ==
    /\ ser.phase = "idle"
    /\ Len(circ.heap) < SerMaxNodes
    /\ \E op \in SerOps :
          \E inc \in Tuples(Range(circ.nodes), n_inputs(op)) :
             Construct(op, OperationCall(circ, op, "", 0,
                              [i \in DOMAIN inc |-> NodeArg(inc[i])], {}))

SerAddOutput ==
    /\ ser.phase = "idle"
    /\ Len(circ.outputs) < SerMaxOutputs
    /\ \E r \in Range(circ.nodes) :
          Construct("add_output", add_output(circ, NodeArg(r), {}))

\* Serializer.serialize up to the first node: before_transform.
SerStart ==
    /\ ser.phase = "idle"
    /\ ser' = before_transform(circ)
    /\ last' = Call("serialize", TRUE, "", 0)
    /\ UNCHANGED <<circ, saved, built, blocks>>

\* One iteration of visit_all on an INPUT node.
SerVisitInput ==
    /\ ser.phase = "visit"
    /\ ser.pos <= Len(circ.nodes)
    /\ circ.heap[circ.nodes[ser.pos]].op = "INPUT"
    /\ ser' = [visit_INPUT(circ, ser, circ.nodes[ser.pos]) EXCEPT !.pos = @ + 1]
    /\ UNCHANGED <<circ, saved, built, last, blocks>>

\* One iteration of visit_all on any other node.
SerVisitGeneric ==
    /\ ser.phase = "visit"
    /\ ser.pos <= Len(circ.nodes)
    /\ circ.heap[circ.nodes[ser.pos]].op # "INPUT"
    /\ ser' = [visit_generic(circ, ser, circ.nodes[ser.pos]) EXCEPT !.pos = @ + 1]
    /\ UNCHANGED <<circ, saved, built, last, blocks>>

\* The end of transform: the outputs and after_transform.
SerAfterTransform ==
    /\ ser.phase = "visit"
    /\ ser.pos > Len(circ.nodes)
    /\ ser' = after_transform(circ, ser)
    /\ last' = Call("serialize", ser'.err = "", ser'.err, 0)
    /\ UNCHANGED <<circ, saved, built, blocks>>

SerNext ==
    \/ SerAddInput
    \/ SerApplyOperation
    \/ SerAddOutput
    \/ SerStart
    \/ SerVisitInput
    \/ SerVisitGeneric
    \/ SerAfterTransform

SpecSer == SerInit /\ [][SerNext]_vars

\* C3: for a circuit built from INPUT, XOR, AND, OR and NOT nodes,
\* executing the program emitted by RawSerializer (load the input bits
\* into the input-address cells, run the instructions in order, read the
\* output-address cells) yields the outputs of Circuit.evaluate on every
\* assignment of the inputs, in any insertion order of the nodes.
C3_ProgramEqualsEvaluate ==
    /\ ser.phase = "done"
    /\ \A r \in Range(circ.nodes) : NodeOf(r).op # "RND"
    /\ Distinct(circ.outputs)
    =>
       /\ ser.err = ""
       /\ \A x \in InputVectors(circ) :
             /\ evaluate(circ, x, NoRnd).ok
             /\ RunProgram(ser, x) = evaluate(circ, x, NoRnd).out

\* C4: at the end of the serialization every two distinct input nodes have
\* distinct cells in the input-address block and every two distinct output
\* nodes have distinct cells in the output-address block.
C4_DistinctCells ==
    ser.phase = "done" /\ ser.info # <<>> =>
       /\ \A i, j \in DOMAIN circ.inputs :
             circ.inputs[i] # circ.inputs[j] =>
                ser.input_addr[i] # ser.input_addr[j]
       /\ \A i, j \in DOMAIN circ.outputs :
             circ.outputs[i] # circ.outputs[j] =>
                ser.output_addr[i] # ser.output_addr[j]

(***************************************************************************)
(* The operator-style constructors of the Node classes.                    *)
(***************************************************************************)
\* The result of an operator-style constructor: the result of the call, the
\* peephole rule that produced it ("" when an operation was applied) and
\* the operand nodes, literals wrapped, left operand first.
Applied(r, rule, args) ==
    [circ |-> r.circ, ok |-> r.ok, err |-> r.err, node |-> r.node,
     rule |-> rule, args |-> args]

is_CONST(C, r, v) == C.heap[r].op = "CONST" /\ C.heap[r].value = v

is_NOT(C, r) == C.heap[r].op = "NOT"

Apply2(C, op, a, b, dead) ==
    Applied(CallOnNodes(C, op, "", 0, <<a, b>>, dead), "", <<a, b>>)

\* ArithmeticCircuit.Node.__neg__ (inherited by the optimized class).
Arithmetic__neg__(C, self, dead) ==
    Applied(CallOnNodes(C, "NEG", "", 0, <<self>>, dead), "", <<self>>)

\* BooleanCircuit.Node.__invert__.
Boolean__invert__(C, self, dead) ==
    Applied(CallOnNodes(C, "NOT", "", 0, <<self>>, dead), "", <<self>>)

\* OptBooleanCircuit.Node.__invert__.
OptBoolean__invert__(C, self, dead) ==
    IF is_NOT(C, self)
    THEN Applied(Return(C, C.heap[self].incoming[1]), "NOT(NOT a)", <<self>>)
    ELSE Boolean__invert__(C, self, dead)

\* OptArithmeticCircuit.Node.__add__, b already a node.
OptArithmetic__add__(C, self, b, dead) ==
    IF is_CONST(C, b, 0) THEN Applied(Return(C, self), "a+0", <<self, b>>)
    ELSE IF is_CONST(C, self, 0) THEN Applied(Return(C, b), "0+b", <<self, b>>)
    ELSE Apply2(C, "ADD", self, b, dead)

\* OptArithmeticCircuit.Node.__radd__, b already a node: b + self.
OptArithmetic__radd__(C, self, b, dead) ==
    IF is_CONST(C, b, 0) THEN Applied(Return(C, self), "0+b", <<b, self>>)
    ELSE IF is_CONST(C, self, 0) THEN Applied(Return(C, b), "a+0", <<b, self>>)
    ELSE Apply2(C, "ADD", b, self, dead)

\* OptArithmeticCircuit.Node._sub(a, b).
OptArithmetic_sub(C, a, b, dead) ==
    IF is_CONST(C, b, 0) THEN Applied(Return(C, a), "a-0", <<a, b>>)
    ELSE IF is_CONST(C, a, 0)
    THEN Applied(Arithmetic__neg__(C, b, dead), "0-b", <<a, b>>)
    ELSE Apply2(C, "SUB", a, b, dead)

\* OptArithmeticCircuit.Node._mul(a, b).
OptArithmetic_mul(C, a, b, dead) ==
    IF is_CONST(C, b, 0) THEN Applied(Return(C, b), "a*0", <<a, b>>)
    ELSE IF is_CONST(C, b, 1) THEN Applied(Return(C, a), "a*1", <<a, b>>)
    ELSE IF is_CONST(C, a, 0) THEN Applied(Return(C, a), "0*b", <<a, b>>)
    ELSE IF is_CONST(C, a, 1) THEN Applied(Return(C, b), "1*b", <<a, b>>)
    ELSE Apply2(C, "MUL", a, b, dead)

\* OptBooleanCircuit.Node.__xor__ (reflected = FALSE, self ^ b) and __rxor__
\* (reflected = TRUE, b ^ self), b already a node.  The two methods make the
\* same tests in the same order and differ in the operand order of XOR.
OptBoolean__xor__(C, self, b, reflected, dead) ==
    LET args == IF reflected THEN <<b, self>> ELSE <<self, b>>
    IN IF is_CONST(C, b, 0) THEN Applied(Return(C, self), "a^0", args)
       ELSE IF is_CONST(C, self, 0) THEN Applied(Return(C, b), "a^0", args)
       ELSE IF is_CONST(C, b, 1)
       THEN Applied(OptBoolean__invert__(C, self, dead), "a^1", args)
       ELSE IF is_CONST(C, self, 1)
       THEN Applied(OptBoolean__invert__(C, b, dead), "a^1", args)
       ELSE Apply2(C, "XOR", args[1], args[2], dead)

\* OptBooleanCircuit.Node._and(a, b).
OptBoolean_and(C, a, b, dead) ==
    IF is_CONST(C, b, 0) THEN Applied(Return(C, b), "a&0", <<a, b>>)
    ELSE IF is_CONST(C, b, 1) THEN Applied(Return(C, a), "a&1", <<a, b>>)
    ELSE IF is_CONST(C, a, 0) THEN Applied(Return(C, a), "a&0", <<a, b>>)
    ELSE IF is_CONST(C, a, 1) THEN Applied(Return(C, b), "a&1", <<a, b>>)
    ELSE Apply2(C, "AND", a, b, dead)

\* The operation behind an operator of the plain Node classes.
PlainOperation(C, sym) ==
    IF C.cls \in BooleanFlavors
    THEN CASE sym \in {"^", "+", "-"} -> "XOR"
           [] sym \in {"&", "*"} -> "AND"
           [] sym = "|" -> "OR"
    ELSE CASE sym = "+" -> "ADD"
           [] sym = "-" -> "SUB"
           [] sym = "*" -> "MUL"

\* The operators a class defines.
Operators(cls) ==
    IF cls \in BooleanFlavors THEN {"^", "&", "|", "+", "-", "*"}
    ELSE {"+", "-", "*"}

\* The operators the optimized classes override.
Overridden(cls) ==
    CASE cls = "OptBooleanCircuit" -> {"^", "&"}
      [] cls = "OptArithmeticCircuit" -> {"+", "-", "*"}
      [] OTHER -> {}

\* Python's evaluation of "x sym y" where one operand at least is a node of
\* circuit C: the method of the left operand when it is a node, the
\* reflected method of the right operand otherwise.  An overriding method
\* first turns its other operand into a CONST node.
BinaryOperator(C, sym, x, y, dead) ==
    IF sym \notin Operators(C.cls) THEN Applied(Raise(C, "TypeError"), "", <<>>)
    ELSE IF sym \notin Overridden(C.cls)
    THEN Applied(OperationCall(C, PlainOperation(C, sym), "", 0, <<x, y>>, dead),
                 "", <<>>)
    ELSE LET reflected == x.kind # "node"
             self  == IF reflected THEN y.v ELSE x.v
             other == IF reflected THEN x ELSE y
         IN CHOOSE res \in
              { IF ~w.ok THEN Applied(w, "", <<>>)
                ELSE LET D == w.circ
                         b == w.node
                     IN CASE sym = "+" /\ ~reflected -> OptArithmetic__add__(D, self, b, dead)
                          [] sym = "+" /\ reflected -> OptArithmetic__radd__(D, self, b, dead)
                          [] sym = "-" /\ ~reflected -> OptArithmetic_sub(D, self, b, dead)
                          [] sym = "-" /\ reflected -> OptArithmetic_sub(D, b, self, dead)
                          [] sym = "*" /\ ~reflected -> OptArithmetic_mul(D, self, b, dead)
                          [] sym = "*" /\ reflected -> OptArithmetic_mul(D, b, self, dead)
                          [] sym = "^" -> OptBoolean__xor__(D, self, b, reflected, dead)
                          [] sym = "&" /\ ~reflected -> OptBoolean_and(D, self, b, dead)
                          [] sym = "&" /\ reflected -> OptBoolean_and(D, b, self, dead) :
                w \in { IF other.kind = "node" THEN Return(C, other.v)
                        ELSE add_const(C, other.v, dead) } } : TRUE

\* "~x" and "-x" on a node.
UnaryOperator(C, sym, self, dead) ==
    CASE sym = "~" /\ C.cls = "OptBooleanCircuit" -> OptBoolean__invert__(C, self, dead)
      [] sym = "~" /\ C.cls = "BooleanCircuit" -> Boolean__invert__(C, self, dead)
      [] sym = "-" /\ C.cls \in ArithmeticFlavors -> Arithmetic__neg__(C, self, dead)
      [] sym = "-" /\ C.cls \in BooleanFlavors -> Applied(Raise(C, "TypeError"), "", <<>>)

(***************************************************************************)
(* circkit.transformers.isw: IswOnArithmetic.                              *)
(***************************************************************************)
\* The body of a visit method is a straight line of node constructions in
\* the target circuit.  It is written as the list of its statements
\*     dst := INPUT(name) | RND | CONST(value) | a sym b
\* in the order in which the method executes them, over the local names of
\* the method: <<"x", i>> and <<"y", i>> the shares of the arguments,
\* <<"r", i, j>> the matrix r, <<"z", i>> the result, <<"t">> and <<"u">>
\* the values of subexpressions.  Indices are those of the source (from 0).
Input(dst, name) == [dst |-> dst, op |-> "INPUT", name |-> name, value |-> 0,
                     a |-> <<>>, b |-> <<>>]

Rnd(dst) == [dst |-> dst, op |-> "RND", name |-> "", value |-> 0,
             a |-> <<>>, b |-> <<>>]

Const(dst, v) == [dst |-> dst, op |-> "CONST", name |-> "", value |-> v,
                  a |-> <<>>, b |-> <<>>]

Bin(dst, a, sym, b) == [dst |-> dst, op |-> sym, name |-> "", value |-> 0,
                        a |-> a, b |-> b]

RECURSIVE Concat(_)
Concat(ss) == IF ss = <<>> THEN <<>> ELSE Head(ss) \o Concat(Tail(ss))

\* The pairs (i, j) of range(n) x range(n) in the order of two nested loops.
AllPairs(n) == [k \in 1..(n * n) |-> <<(k - 1) \div n, (k - 1) % n>>]

\* The local variables of a method: the list of the bindings <<name, node>>.
Local(env, nm) == env[CHOOSE i \in DOMAIN env : env[i][1] = nm][2]

Assign(env, nm, node) ==
    Append(SelectSeq(env, LAMBDA e : e[1] # nm), <<nm, node>>)

\* One statement executed in the target circuit C; env maps the local
\* names to nodes.
Statement(C, st, env) ==
    CASE st.op = "INPUT" -> Applied(add_input(C, st.name, {}), "", <<>>)
      [] st.op = "RND" -> Applied(CallOnNodes(C, "RND", "", 0, <<>>, {}), "", <<>>)
      [] st.op = "CONST" -> Applied(add_const(C, st.value, {}), "", <<>>)
      [] OTHER -> BinaryOperator(C, st.op, NodeArg(Local(env, st.a)), NodeArg(Local(env, st.b)), {})

\* The statements in order; an exception ends the method.
RECURSIVE Statements(_, _, _)
Statements(C, sts, env) ==
    IF sts = <<>> THEN [circ |-> C, ok |-> TRUE, err |-> "", env |-> env]
    ELSE CHOOSE res \in
           { IF ~r.ok THEN [circ |-> r.circ, ok |-> FALSE, err |-> r.err, env |-> env]
             ELSE Statements(r.circ, Tail(sts),
                             Assign(env, Head(sts).dst, r.node)) :
             r \in { Statement(C, Head(sts), env) } } : TRUE

\* IswOnArithmetic.visit_INPUT: one input per share, named after the source
\* input.
visit_INPUT_body(name, n_shares) ==
    [k \in 1..n_shares |->
       Input(<<"z", k - 1>>, name \o "_share" \o ToString(k - 1))]

\* IswOnArithmetic.visit_ADD (also visit_XOR): x + y on Arrays, element by
\* element.
visit_ADD_body(n_shares) ==
    [k \in 1..n_shares |-> Bin(<<"z", k - 1>>, <<"x", k - 1>>, "+", <<"y", k - 1>>)]

\* A refresh that forgets the cross term x[j]*y[i]:
\*   r[j][i] = r[i][j] + x[i]*y[j]
visit_MUL_pair_one_sided(i, j) ==
    << Rnd(<<"r", i, j>>),
       Bin(<<"t">>, <<"x", i>>, "*", <<"y", j>>),
       Bin(<<"r", j, i>>, <<"r", i, j>>, "+", <<"t">>) >>

\* IswOnArithmetic.visit_MUL (also visit_AND):
\*   for i < j:  r[i][j] = RND()();  r[j][i] = r[i][j] + x[i]*y[j] + x[j]*y[i]
\*   z = x * y
\*   for i # j:  z[i] = z[i] - r[i][j]
visit_MUL_pair(i, j) ==
    << Rnd(<<"r", i, j>>),
       Bin(<<"t">>, <<"x", i>>, "*", <<"y", j>>),
       Bin(<<"t">>, <<"r", i, j>>, "+", <<"t">>),
       Bin(<<"u">>, <<"x", j>>, "*", <<"y", i>>),
       Bin(<<"r", j, i>>, <<"t">>, "+", <<"u">>) >>

visit_MUL_body(n_shares) ==
    LET lt == SelectSeq(AllPairs(n_shares), LAMBDA p : p[1] < p[2])
        ne == SelectSeq(AllPairs(n_shares), LAMBDA p : p[1] # p[2])
    IN Concat([k \in DOMAIN lt |-> visit_MUL_pair(lt[k][1], lt[k][2])])
       \o [k \in 1..n_shares |->
             Bin(<<"z", k - 1>>, <<"x", k - 1>>, "*", <<"y", k - 1>>)]
       \o [k \in DOMAIN ne |->
             Bin(<<"z", ne[k][1]>>, <<"z", ne[k][1]>>, "-", <<"r", ne[k][1], ne[k][2]>>)]

\* IswOnArithmetic.visit_CONST:
\*   shares = Array(RND()() for i in range(order))
\*   c = add_const(value);  for i in range(order): c = c + shares[i]
\*   shares.append(c)
visit_CONST_body(order, value) ==
    [k \in 1..order |-> Rnd(<<"z", k - 1>>)]
    \o << Const(<<"z", order>>, value) >>
    \o [k \in 1..order |-> Bin(<<"z", order>>, <<"z", order>>, "+", <<"z", k - 1>>)]

\* The local names bound to the Arrays passed to a visit method.
Arguments(args) ==
    (IF Len(args) >= 1
     THEN [k \in DOMAIN args[1] |-> <<(<<"x", k - 1>>), args[1][k]>>] ELSE <<>>)
    \o (IF Len(args) >= 2
        THEN [k \in DOMAIN args[2] |-> <<(<<"y", k - 1>>), args[2][k]>>] ELSE <<>>)

\* Transformer.visit: the method named after the operation; the
\* visit_generic of CircuitTransformer reapplies the node on the Arrays and
\* fails on them (AttributeError).  The result is the Array z.
visit(T, order, node, args) ==
    IF node.op \notin {"INPUT", "ADD", "XOR", "MUL", "AND", "CONST"}
    THEN [circ |-> T, ok |-> FALSE, err |-> "AttributeError", arr |-> <<>>]
    ELSE LET body == CASE node.op = "INPUT" -> visit_INPUT_body(node.name, order + 1)
                       [] node.op \in {"ADD", "XOR"} -> visit_ADD_body(order + 1)
                       [] node.op \in {"MUL", "AND"} -> visit_MUL_body(order + 1)
                       [] node.op = "CONST" -> visit_CONST_body(order, node.value)
         IN CHOOSE res \in
              { [circ |-> r.circ, ok |-> r.ok, err |-> r.err,
                 arr |-> IF r.ok THEN [k \in 1..(order + 1) |-> Local(r.env, <<"z", k - 1>>)]
                         ELSE <<>>] :
                r \in { Statements(T, body, Arguments(args)) } } : TRUE

\* Transformer.visit_all: the nodes in node-list order; result maps a source
\* node to its Array.
RECURSIVE visit_all(_, _, _, _, _)
visit_all(S, T, order, result, i) ==
    IF i > Len(S.nodes) THEN [circ |-> T, ok |-> TRUE, err |-> "", result |-> result]
    ELSE LET r == S.nodes[i]
             n == S.heap[r]
         IN IF \E k \in DOMAIN n.incoming : result[n.incoming[k]] = <<>>
            THEN [circ |-> T, ok |-> FALSE, err |-> "KeyError", result |-> result]
            ELSE CHOOSE res \in
                   { IF ~v.ok
                     THEN [circ |-> v.circ, ok |-> FALSE, err |-> v.err, result |-> result]
                     ELSE visit_all(S, v.circ, order, [result EXCEPT ![r] = v.arr], i + 1) :
                     v \in { visit(T, order, n,
                                   [k \in DOMAIN n.incoming |-> result[n.incoming[k]]]) } } : TRUE

\* CircuitTransformer.make_output on every output: each node of the Array
\* becomes an output of the target circuit.
RECURSIVE make_outputs(_, _, _)
make_outputs(T, result, outs) ==
    IF outs = <<>> THEN Return(T, 0)
    ELSE IF result[Head(outs)] = <<>> THEN Raise(T, "KeyError")
    ELSE CHOOSE res \in
           { make_outputs(T1, result, Tail(outs)) :
             T1 \in { AddOutputs(T, result[Head(outs)]) } } : TRUE

\* CircuitTransformer.create_target_circuit without keyword arguments: an
\* empty circuit of the class and the base ring of the source circuit.
create_target_circuit(S) == NewCircuit(S.cls, S.modulus)

\* IswOnArithmetic(order).transform(S).
IswTransform(S, order) ==
    CHOOSE res \in
      { IF ~V.ok THEN Raise(V.circ, V.err)
        ELSE make_outputs(V.circ, V.result, S.outputs) :
        V \in { visit_all(S, create_target_circuit(S), order,
                          [r \in 1..Len(S.heap) |-> <<>>], 1) } } : TRUE

(***************************************************************************)
(* Specification SpecIsw: a client builds a circuit from INPUT, CONST, ADD  *)
(* and MUL nodes (XOR and AND in a boolean circuit) and applies            *)
(* IswOnArithmetic(order).transform to it.                                 *)
(***************************************************************************)
\* Node objects of a circuit handed to the ISW transformer.
IswMaxNodes == 3
\* Outputs of a circuit handed to the ISW transformer.
IswMaxOutputs == 1
\* The largest masking order.
MaxOrder == 2
\* The base rings Z_m of the arithmetic circuits.
IswModuli == {2, 3}

IswOps(C) == IF C.cls \in BooleanFlavors THEN {"XOR", "AND"} ELSE {"ADD", "MUL"}

IswInit ==
    /\ circ \in {NewCircuit(cls, 2) : cls \in BooleanFlavors}
                \cup {NewCircuit("ArithmeticCircuit", m) : m \in IswModuli}
    /\ saved = NoCircuit
    /\ built = NoCircuit
    /\ last = Call("init", TRUE, "", 0)
    /\ ser = NoSer
    /\ blocks = <<>>

IswAddInput ==
    /\ last.op # "isw"
    /\ Len(circ.heap) < IswMaxNodes
    /\ Construct("add_input", add_input(circ, NoName, {}))

IswAddConst ==
    /\ last.op # "isw"
    /\ Len(circ.heap) < IswMaxNodes
    /\ \E v \in Values(circ) : Construct("add_const", add_const(circ, v, {}))

IswApplyOperation ==
    /\ last.op # "isw"
    /\ Len(circ.heap) < IswMaxNodes
    /\ \E op \in IswOps(circ) :
          \E inc \in Tuples(Range(circ.nodes), 2) :
             Construct(op, OperationCall(circ, op, "", 0,
                              [i \in DOMAIN inc |-> NodeArg(inc[i])], {}))

IswAddOutput ==
    /\ last.op # "isw"
    /\ Len(circ.outputs) < IswMaxOutputs
    /\ \E r \in Range(circ.nodes) :
          Construct("add_output", add_output(circ, NodeArg(r), {}))

IswApply ==
    /\ last.op # "isw"
    /\ \E order \in 1..MaxOrder :
          LET r == IswTransform(circ, order)
          IN /\ built' = r.circ
             /\ last' = [Call("isw", r.ok, r.err, 0) EXCEPT !.args = <<order>>]
             /\ UNCHANGED <<circ, saved, ser, blocks>>

IswNext ==
    \/ IswAddInput
    \/ IswAddConst
    \/ IswApplyOperation
    \/ IswAddOutput
    \/ IswApply

SpecIsw == IswInit /\ [][IswNext]_vars

\* The values the RND nodes of C may draw in one evaluation.
RndNodes(C) == {r \in Range(C.nodes) : C.heap[r].op = "RND"}

RndAssignments(C) ==
    {[r \in 1..Len(C.heap) |-> IF r \in RndNodes(C) THEN f[r] ELSE 0] :
       f \in [RndNodes(C) -> Values(C)]}

\* The k-th group of n consecutive elements of s, summed in Z_m.
GroupSum(s, k, n, m) == SeqSum(SubSeq(s, (k - 1) * n + 1, k * n)) % m

\* The masked circuit T computes the circuit S with n shares per value.
Unmasks(S, T, n) ==
    /\ n_inputs_of(T) = n * n_inputs_of(S)
    /\ n_outputs_of(T) = n * n_outputs_of(S)
    /\ \A s \in InputVectors(T) : \A rnd \in RndAssignments(T) :
          LET x == [k \in DOMAIN S.inputs |-> GroupSum(s, k, n, S.modulus)]
              masked == evaluate(T, s, rnd)
              plain  == evaluate(S, x, NoRnd)
          IN /\ masked.ok
             /\ plain.ok
             /\ \A k \in DOMAIN S.outputs :
                   GroupSum(masked.out, k, n, S.modulus) = plain.out[k]

\* C5: for every arithmetic circuit over any base ring built from INPUT,
\* CONST, ADD and MUL nodes and every masking order d >= 1, the n = d + 1
\* output shares of each output of the transformed circuit sum to the
\* output of the original circuit at the sums of the input shares, for all
\* share inputs and all values of the RND nodes.
C5_IswArithmeticCorrect ==
    last.op = "isw" /\ circ.cls \in ArithmeticFlavors =>
       last.ok /\ Unmasks(circ, built, last.args[1] + 1)

\* A boolean circuit with 2 inputs and the single output in0 AND in1.
IsAndOfTwoInputs(C) ==
    /\ C.cls \in BooleanFlavors
    /\ Len(C.nodes) = 3 /\ Len(C.inputs) = 2 /\ Len(C.outputs) = 1
    /\ C.heap[C.outputs[1]].op = "AND"
    /\ C.heap[C.outputs[1]].incoming = C.inputs

\* C6: the ISW transformer at order 1 on a boolean circuit with 2 inputs and
\* the single output in0 AND in1 yields a circuit with 4 inputs and 2
\* outputs, and for all share inputs and every value of the RND node
\* out_0 XOR out_1 = (in0_share0 XOR in0_share1) AND (in1_share0 XOR in1_share1).
C6_IswAndOrderOne ==
    last.op = "isw" /\ last.args = <<1>> /\ IsAndOfTwoInputs(circ) =>
       /\ last.ok
       /\ n_inputs_of(built) = 4
       /\ n_outputs_of(built) = 2
       /\ Cardinality(RndNodes(built)) = 1
       /\ \A s \in InputVectors(built) : \A rnd \in RndAssignments(built) :
             LET out == evaluate(built, s, rnd).out
             IN (out[1] + out[2]) % 2 = ((s[1] + s[2]) % 2) * ((s[3] + s[4]) % 2)

\* C6 witness: the transformer has run at order 1 on in0 AND in1.
C6_Witness ==
    /\ last.op = "isw" /\ last.args = <<1>> /\ last.ok
    /\ IsAndOfTwoInputs(circ)
    /\ Len(built.nodes) = 13

(***************************************************************************)
(* Specification SpecOpt: a client builds an optimized circuit with the     *)
(* operator-style constructors, on nodes and on literals.                  *)
(***************************************************************************)
\* Node objects of the optimized circuit.
OptMaxNodes == 3
\* The base ring Z_m of the optimized arithmetic circuit.
OptModulus == 3
\* The literals the client passes to an operator.
Literals == {0, 1}

OptInit ==
    /\ circ \in {NewCircuit("OptBooleanCircuit", 2),
                 NewCircuit("OptArithmeticCircuit", OptModulus)}
    /\ saved = NoCircuit
    /\ built = NoCircuit
    /\ last = Call("init", TRUE, "", 0)
    /\ ser = NoSer
    /\ blocks = <<>>

OptAddInput ==
    /\ Len(circ.heap) < OptMaxNodes
    /\ Construct("add_input", add_input(circ, NoName, {}))

OptAddConst ==
    /\ Len(circ.heap) < OptMaxNodes
    /\ \E v \in Values(circ) : Construct("add_const", add_const(circ, v, {}))

Operator(sym, r) ==
    /\ circ' = r.circ
    /\ last' = [op |-> sym, args |-> r.args, rule |-> r.rule,
                ok |-> r.ok, err |-> r.err, node |-> r.node]
    /\ UNCHANGED <<saved, built, ser, blocks>>

\* "x sym y" with a node on one side at least.
OptBinaryOperator ==
    /\ Len(circ.heap) < OptMaxNodes
    /\ \E sym \in Overridden(circ.cls) :
          \E x, y \in {NodeArg(r) : r \in Range(circ.nodes)}
                      \cup {LitArg(v) : v \in Literals} :
             /\ x.kind = "node" \/ y.kind = "node"
             /\ Operator(sym, BinaryOperator(circ, sym, x, y, {}))

\* "~x" in a boolean circuit, "-x" in an arithmetic circuit.
OptUnaryOperator ==
    /\ Len(circ.heap) < OptMaxNodes
    /\ \E r \in Range(circ.nodes) :
          LET sym == IF circ.cls \in BooleanFlavors THEN "~" ELSE "-"
          IN Operator(sym, UnaryOperator(circ, sym, r, {}))

\* The operation factory: C.AND()(x, y) in a boolean circuit, C.MUL()(x, y)
\* in an arithmetic circuit.
OptApplyOperation ==
    /\ Len(circ.heap) < OptMaxNodes
    /\ \E x, y \in Range(circ.nodes) :
          LET op == IF circ.cls \in BooleanFlavors THEN "AND" ELSE "MUL"
              r  == OperationCall(circ, op, "", 0, <<NodeArg(x), NodeArg(y)>>, {})
          IN Operator(op, Applied(r, "", <<x, y>>))

OptNext ==
    \/ OptAddInput
    \/ OptAddConst
    \/ OptApplyOperation
    \/ OptBinaryOperator
    \/ OptUnaryOperator

SpecOpt == OptInit /\ [][OptNext]_vars

\* The value of node r of C on the input vector x.
NodeValue(C, r, x) == evaluate([C EXCEPT !.outputs = <<r>>], x, NoRnd).out[1]

\* The operation an operator stands for when nothing is simplified.
Unsimplified(C, sym) ==
    CASE sym = "~" -> "NOT"
      [] sym = "-" /\ Len(last.args) = 1 -> "NEG"
      [] OTHER -> IF C.cls \in BooleanFlavors
                  THEN (IF sym = "^" THEN "XOR" ELSE "AND")
                  ELSE PlainOperation(C, sym)

\* C8: in optimized circuits every peephole rewrite of the operator-style
\* constructors (a+0, 0+b, a-0, 0-b -> NEG b, a*0, 0*b, a*1, 1*b, a XOR 0,
\* a XOR 1 -> NOT a, a AND 0, a AND 1, NOT(NOT a) -> a) returns a node whose
\* value is, on every input, the value of the unsimplified operation on the
\* same operands.
C8_PeepholeSound ==
    last.rule # "" =>
       /\ last.ok
       /\ \A x \in InputVectors(circ) :
             NodeValue(circ, last.node, x) =
                OpEval(Unsimplified(circ, last.op),
                       [k \in DOMAIN last.args |-> NodeValue(circ, last.args[k], x)],
                       circ.modulus)

(***************************************************************************)
(* Circuit.concat_parallel.                                                *)
(***************************************************************************)
\* The loop "for other in circuits: other.reapply(C, do_output=True)".
RECURSIVE ConcatOthers(_, _)
ConcatOthers(C, circuits) ==
    IF circuits = <<>> THEN [circ |-> C, ok |-> TRUE, err |-> ""]
    ELSE CHOOSE res \in
           { IF ~r.ok THEN [circ |-> r.circ, ok |-> FALSE, err |-> r.err]
             ELSE ConcatOthers(r.circ, Tail(circuits)) :
             r \in { reapply(Head(circuits), C, <<>>, TRUE) } } : TRUE

\* Circuit.concat_parallel(self, *circuits): self and then every other
\* circuit is rebuilt, outputs included, in one empty clone of self.
concat_parallel(S, circuits) ==
    ConcatOthers(clone_empty(S), <<S>> \o circuits)

(***************************************************************************)
(* Operations with parameters: Operation.__init__ and BooleanCircuit.LUT.  *)
(***************************************************************************)
\* Operation._param_descriptions: the parameters an operation class
\* declares by annotation.  INPUT declares name, CONST declares value; the
\* LUT class of BooleanCircuit declares none.
param_descriptions(op) ==
    CASE op = "INPUT" -> <<"name">>
      [] op = "CONST" -> <<"value">>
      [] op \in {"ROL", "ROR"} -> <<"shift">>
      [] OTHER -> <<>>

\* Operation.__init__(*values): more values than declared parameters is a
\* TypeError.
Operation__init__(C, op, values) ==
    IF Len(values) > Len(param_descriptions(op))
    THEN Raise(C, "TypeError")
    ELSE Return(C, 0)

\* C.LUT(table)(*args): the operation instance is built first, then it is
\* called on the nodes (LUT is variadic: no arity check).
LUT(C, table, args, dead) ==
    LET op == Operation__init__(C, "LUT", <<table>>)
    IN IF ~op.ok THEN op
       ELSE CallOnNodes(C, "LUT", "", 0, args, dead)

(***************************************************************************)
(* Specification SpecCat: a client builds two boolean circuits of the same *)
(* flavor, circ and saved, and stacks them with circ.concat_parallel.      *)
(***************************************************************************)
\* Node objects of each of the two circuits.
CatMaxNodes == 2
\* Outputs of each of the two circuits.
CatMaxOutputs == 1
\* Explicit input names the client uses in the two circuits.
CatInputNames == {"a", "b", "x0"}

CatInit ==
    /\ \E cls \in BooleanFlavors :
          /\ circ = NewCircuit(cls, 2)
          /\ saved = NewCircuit(cls, 2)
    /\ built = NoCircuit
    /\ last = Call("init", TRUE, "", 0)
    /\ ser = NoSer
    /\ blocks = <<>>

\* A constructing call on the first circuit (which = 1) or the second;
\* name is the name argument of add_input.
CatConstruct(which, op, name, r) ==
    /\ last.op # "concat_parallel"
    /\ IF which = 1 THEN circ' = r.circ /\ saved' = saved
                    ELSE saved' = r.circ /\ circ' = circ
    /\ last' = [Call(op, r.ok, r.err, r.node) EXCEPT !.args = <<which, name>>]
    /\ UNCHANGED <<built, ser, blocks>>

CatAddInput ==
    \E which \in {1, 2} :
       LET C == IF which = 1 THEN circ ELSE saved
       IN /\ Len(C.heap) < CatMaxNodes
          /\ \E name \in CatInputNames \cup {NoName} :
                CatConstruct(which, "add_input", name, add_input(C, name, {}))

CatApplyOperation ==
    \E which \in {1, 2} :
       LET C == IF which = 1 THEN circ ELSE saved
       IN /\ Len(C.heap) < CatMaxNodes
          /\ \E r \in Range(C.nodes) :
                CatConstruct(which, "NOT", NoName,
                             OperationCall(C, "NOT", "", 0, <<NodeArg(r)>>, {}))

CatAddOutput ==
    \E which \in {1, 2} :
       LET C == IF which = 1 THEN circ ELSE saved
       IN /\ Len(C.outputs) < CatMaxOutputs
          /\ \E r \in Range(C.nodes) :
                CatConstruct(which, "add_output", NoName, add_output(C, NodeArg(r), {}))

\* LUT((0,1,1,0))(a, b) in a circuit whose inputs are a and b.
CatLUT ==
    \E which \in {1, 2} :
       LET C == IF which = 1 THEN circ ELSE saved
       IN /\ Len(C.inputs) = 2
          /\ C.input_names = {"a", "b"}
          /\ \E a, b \in Range(C.inputs) :
                /\ C.heap[a].name = "a"
                /\ C.heap[b].name = "b"
                /\ CatConstruct(which, "LUT", NoName,
                                LUT(C, <<0, 1, 1, 0>>, <<a, b>>, {}))

\* circ.concat_parallel(T) with T the second circuit or circ itself.
CatConcatParallel ==
    /\ last.op # "concat_parallel"
    /\ \E which \in {1, 2} :
          LET T == IF which = 1 THEN circ ELSE saved
              r == concat_parallel(circ, <<T>>)
          IN /\ built' = r.circ
             /\ last' = [Call("concat_parallel", r.ok, r.err, 0)
                           EXCEPT !.args = <<which>>]
             /\ UNCHANGED <<circ, saved, ser, blocks>>

CatNext ==
    \/ CatAddInput
    \/ CatApplyOperation
    \/ CatAddOutput
    \/ CatLUT
    \/ CatConcatParallel

SpecCat == CatInit /\ [][CatNext]_vars

\* The second operand of the last concat_parallel.
CatOther == IF last.args = <<1>> THEN circ ELSE saved

\* C11: for circuits S and T of the same flavor (T may be S itself, and T
\* may have inputs named like inputs of S), S.concat_parallel(T) returns a
\* circuit with S.n_inputs + T.n_inputs distinct inputs and S.n_outputs +
\* T.n_outputs outputs that evaluates on (x, y) to S.evaluate(x) followed by
\* T.evaluate(y).
C11_ConcatParallel ==
    last.op = "concat_parallel" =>
       /\ last.ok
       /\ n_inputs_of(built) = n_inputs_of(circ) + n_inputs_of(CatOther)
       /\ Distinct(built.inputs)
       /\ n_outputs_of(built) = n_outputs_of(circ) + n_outputs_of(CatOther)
       /\ \A x \in InputVectors(circ) : \A y \in InputVectors(CatOther) :
             evaluate(built, x \o y, NoRnd).out =
                evaluate(circ, x, NoRnd).out \o evaluate(CatOther, y, NoRnd).out

\* The same statement for two circuits whose input names differ: the case
\* in which the stacked circuit is built.
C11_DistinctNames ==
    /\ last.op = "concat_parallel"
    /\ circ.input_names \cap CatOther.input_names = {}
    => /\ last.ok
       /\ n_inputs_of(built) = n_inputs_of(circ) + n_inputs_of(CatOther)
       /\ n_outputs_of(built) = n_outputs_of(circ) + n_outputs_of(CatOther)
       /\ \A x \in InputVectors(circ) : \A y \in InputVectors(CatOther) :
             evaluate(built, x \o y, NoRnd).out =
                evaluate(circ, x, NoRnd).out \o evaluate(CatOther, y, NoRnd).out

\* C12: in every circuit flavor, optimized circuits with the node cache
\* included, add_input with a name that is already the name of an input of
\* the circuit raises (KeyError "Repeated input name") and returns no node.
C12_DuplicateInputRejected ==
    [][ /\ last'.op = "add_input"
        /\ last'.args[2] \in (IF last'.args[1] = 1 THEN circ ELSE saved).input_names
        => ~last'.ok /\ last'.err = "KeyError" ]_vars

\* C13: in a boolean circuit with inputs a and b, the LUT operation with
\* table (0,1,1,0) applied to (a, b) is constructed and its node evaluates
\* to 0, 1, 1, 0 on (a, b) = (0,0), (0,1), (1,0), (1,1).
C13_LutConstructs ==
    last.op = "LUT" =>
       /\ last.ok
       /\ LET C == IF last.args[1] = 1 THEN circ ELSE saved
              a == CHOOSE i \in DOMAIN C.inputs : C.heap[C.inputs[i]].name = "a"
              b == CHOOSE i \in DOMAIN C.inputs : C.heap[C.inputs[i]].name = "b"
          IN \A x \in InputVectors(C) :
                NodeValue(C, last.node, x) = <<0, 1, 1, 0>>[2 * x[a] + x[b] + 1]

(***************************************************************************)
(* Specification SpecBit: a client builds a bitwise circuit of word size w *)
(* from one input and the rotations ROL(k) and ROR(k).                     *)
(***************************************************************************)
\* Node objects of the bitwise circuit.
BitMaxNodes == 3
\* The shift counts the client passes: none, one below every word size but
\* the smallest, and one above every word size.
Shifts == {0, 3, 9}
\* The word sizes of the circuits the client builds.
WordSizes == {1, 2, 3, 8}

BitInit ==
    /\ circ \in {NewCircuit("BitwiseCircuit", 2 ^ w) : w \in WordSizes}
    /\ saved = NoCircuit
    /\ built = NoCircuit
    /\ last = Call("init", TRUE, "", 0)
    /\ ser = NoSer
    /\ blocks = <<>>

BitAddInput ==
    /\ circ.nodes = <<>>
    /\ Construct("add_input", add_input(circ, NoName, {}))

\* C.ROL(k)(x) and C.ROR(k)(x): Param.Int keeps the shift count k.
BitRotate ==
    /\ Len(circ.heap) < BitMaxNodes
    /\ \E op \in {"ROL", "ROR"}, k \in Shifts, x \in Range(circ.nodes) :
          LET o == Operation__init__(circ, op, <<k>>)
          IN Construct(op, IF ~o.ok THEN o
                           ELSE OperationCall(circ, op, "", k, <<NodeArg(x)>>, {}))

BitNext ==
    \/ BitAddInput
    \/ BitRotate

SpecBit == BitInit /\ [][BitNext]_vars

\* Bit i of the word x.
Bit(x, i) == (x \div (2 ^ i)) % 2

\* The w-bit word whose bit i is bit (i - k) mod w of x, for a signed k:
\* the rotation of x by k positions to the left.
Rotated(x, k, w) ==
    LET sum[i \in 0..w] ==
          IF i = w THEN 0 ELSE Bit(x, (i - k) % w) * (2 ^ i) + sum[i + 1]
    IN sum[0]

C15_MulByZeroFolds ==
    /\ circ.cls = "OptArithmeticCircuit"
    /\ last.op \in {"MUL", "*"}
    /\ Len(last.args) = 2
    /\ is_CONST(circ, last.args[1], 0)
    /\ NodeOf(last.args[2]).op = "INPUT"
    => /\ last.ok
       /\ last.node = last.args[1]
       /\ NodeOf(last.node).op # "MUL"

\* The operator form alone: CONST(0) * INPUT(a) and 0 * INPUT(a).
C15_OperatorForm ==
    /\ circ.cls = "OptArithmeticCircuit"
    /\ last.op = "*"
    /\ Len(last.args) = 2
    /\ is_CONST(circ, last.args[1], 0)
    /\ NodeOf(last.args[2]).op = "INPUT"
    => /\ last.ok
       /\ last.node = last.args[1]

\* The nodes visited so far that are not inputs, in node-list order.
VisitedGates ==
    SelectSeq(SubSeq(circ.nodes, 1, IF ser.pos - 1 < Len(circ.nodes)
                                    THEN ser.pos - 1 ELSE Len(circ.nodes)),
              LAMBDA r : NodeOf(r).op # "INPUT")

\* The opcode and the number of source cells the format gives an operation.
FormatOpcode(op) ==
    CASE op = "XOR" -> <<1, 2>>
      [] op = "AND" -> <<2, 2>>
      [] op = "OR"  -> <<3, 2>>
      [] op = "NOT" -> <<4, 1>>
      [] op = "RND" -> <<5, 0>>

\* C16: RawSerializer emits one instruction per non-input node, in
\* node-list order: the opcode XOR=1, AND=2, OR=3, NOT=4, RND=5, the
\* destination cell of the node, then the cells of its 2, 2, 2, 1 and 0
\* incoming nodes; an RND node gives an instruction with opcode 5 and no
\* sources.
C16_OneInstructionPerGate ==
    ser.phase # "idle" =>
       /\ Len(ser.code) = Len(VisitedGates)
       /\ \A k \in DOMAIN ser.code :
             LET n == NodeOf(VisitedGates[k])
             IN /\ ser.code[k][1] = FormatOpcode(n.op)[1]
                /\ ser.code[k][2] = ser.bit_id[VisitedGates[k]]
                /\ Len(ser.code[k]) = 2 + FormatOpcode(n.op)[2]
                /\ \A i \in DOMAIN n.incoming :
                      ser.code[k][2 + i] = ser.bit_id[n.incoming[i]]

\* C17: a boolean circuit whose output list holds the same node more than
\* once serializes without error; the header reports n_outputs = the length
\* of the output list and the output-address block has one entry per
\* position of the output list, equal nodes carrying the same cell.
C17_RepeatedOutputs ==
    /\ ser.phase = "done"
    /\ ~Distinct(circ.outputs)
    /\ \A r \in Range(circ.nodes) : NodeOf(r).op # "RND"
    => /\ ser.err = ""
       /\ ser.header[1][2] = Len(circ.outputs)
       /\ Len(ser.header[3]) = Len(circ.outputs)
       /\ \A i, j \in DOMAIN circ.outputs :
             circ.outputs[i] = circ.outputs[j] => ser.header[3][i] = ser.header[3][j]

\* The inputs of C are INPUT nodes without incoming nodes, under names that
\* differ from one another.
InputsWellFormed(C) ==
    \A i \in DOMAIN C.inputs :
       LET n == C.heap[C.inputs[i]]
       IN /\ n.op = "INPUT"
          /\ n.incoming = <<>>
          /\ \A j \in DOMAIN C.inputs : j # i => C.heap[C.inputs[j]].name # n.name

\* C18: after any sequence of add_input calls with explicit names and
\* without a name, every node of the input list is an INPUT node with no
\* incoming nodes and a name of its own; an add_input without a name
\* returns a new input named x<k>, k the least number from the unnamed
\* counter on for which x<k> is not an input name.
C18_InputNames ==
    [][ /\ InputsWellFormed(circ') /\ InputsWellFormed(saved')
        /\ last'.op = "add_input" /\ last'.args[2] = NoName =>
              LET C == IF last'.args[1] = 1 THEN circ ELSE saved
                  D == IF last'.args[1] = 1 THEN circ' ELSE saved'
                  free == {k \in C.unnamed_input_counter .. C.unnamed_input_counter + Len(C.inputs) :
                             "x" \o ToString(k) \notin C.input_names}
                  k == CHOOSE m \in free : \A o \in free : m <= o
              IN /\ last'.ok
                 /\ D.inputs = Append(C.inputs, last'.node)
                 /\ D.heap[last'.node].name = "x" \o ToString(k) ]_vars

\* An unnamed input was added to a circuit in which x0 was an explicit name
\* and stepped over it.
C18_Witness ==
    /\ last.op = "add_input" /\ last.args = <<1, NoName>> /\ last.ok
    /\ Len(circ.inputs) = 2
    /\ circ.heap[circ.inputs[1]].name = "x0"
    /\ circ.heap[circ.inputs[2]].name = "x1"
    /\ circ.unnamed_input_counter = 2

(***************************************************************************)
(* Specification SpecOrd: a client builds a boolean circuit, marks outputs *)
(* (a node may be marked more than once) and reorders the input list and   *)
(* the output list in place.                                               *)
(***************************************************************************)
\* Node objects of the circuit.
OrdMaxNodes == 2
\* Length of the output list.
OrdMaxOutputs == 3

OrdInit ==
    /\ circ \in {NewCircuit(cls, 2) : cls \in BooleanFlavors}
    /\ saved = NoCircuit
    /\ built = NoCircuit
    /\ last = Call("init", TRUE, "", 0)
    /\ ser = NoSer
    /\ blocks = <<>>

OrdAddInput ==
    /\ Len(circ.heap) < OrdMaxNodes
    /\ Construct("add_input", add_input(circ, NoName, {}))

OrdApplyOperation ==
    /\ Len(circ.heap) < OrdMaxNodes
    /\ \E r \in Range(circ.nodes) :
          Construct("NOT", OperationCall(circ, "NOT", "", 0, <<NodeArg(r)>>, {}))

OrdAddOutput ==
    /\ Len(circ.outputs) < OrdMaxOutputs
    /\ \E r \in Range(circ.nodes) :
          Construct("add_output", add_output(circ, NodeArg(r), {}))

\* A reordering call: saved keeps the circuit as it was before the call,
\* last.args the sequence of nodes the client passed.
Reorder(op, p, r) ==
    /\ circ' = r.circ
    /\ saved' = circ
    /\ last' = [Call(op, r.ok, r.err, 0) EXCEPT !.args = p]
    /\ UNCHANGED <<built, ser, blocks>>

OrdReorderInputs ==
    \E n \in 0..OrdMaxNodes : \E p \in Tuples(Range(circ.nodes), n) :
       Reorder("in_place_reorder_inputs", p, in_place_reorder_inputs(circ, p))

OrdReorderOutputs ==
    \E n \in 0..OrdMaxOutputs : \E p \in Tuples(Range(circ.nodes), n) :
       Reorder("in_place_reorder_outputs", p, in_place_reorder_outputs(circ, p))

OrdNext ==
    \/ OrdAddInput
    \/ OrdApplyOperation
    \/ OrdAddOutput
    \/ OrdReorderInputs
    \/ OrdReorderOutputs

SpecOrd == OrdInit /\ [][OrdNext]_vars

\* p is a rearrangement of s: every node occurs in both the same number of
\* times.
Rearrangement(p, s) ==
    \A r \in Range(p) \cup Range(s) : Count(r, p) = Count(r, s)

\* The position map that matches a list: each node with each of its
\* positions.
PositionsOf(s) == {<<s[i], i - 1>> : i \in DOMAIN s}

\* C19: in_place_reorder_inputs and in_place_reorder_outputs succeed only
\* when the given sequence is a permutation of the current list (for the
\* outputs a rearrangement with the multiplicity of each node), and then
\* the list is the given sequence and the position map matches it;
\* otherwise they fail and leave the list and the position map unchanged.
C19_ReorderPermutation ==
    /\ last.op = "in_place_reorder_inputs" =>
          /\ last.ok <=> Rearrangement(last.args, saved.inputs)
          /\ last.ok => circ.inputs = last.args /\ circ.input_id = PositionsOf(last.args)
          /\ ~last.ok => circ.inputs = saved.inputs /\ circ.input_id = saved.input_id
    /\ last.op = "in_place_reorder_outputs" =>
          /\ last.ok <=> Rearrangement(last.args, saved.outputs)
          /\ last.ok => circ.outputs = last.args /\ circ.output_ids = PositionsOf(last.args)
          /\ ~last.ok => circ.outputs = saved.outputs /\ circ.output_ids = saved.output_ids

(***************************************************************************)
(* in_place_remove_unused_nodes, checked under Spec; saved is the circuit  *)
(* before the call.                                                        *)
(***************************************************************************)
\* r is o or is reached from o along at most n incoming edges.
RECURSIVE Reaches(_, _, _, _)
Reaches(heap, o, r, n) ==
    \/ o = r
    \/ n > 0 /\ \E s \in Range(heap[o].incoming) : Reaches(heap, s, r, n - 1)

\* The nodes of C that are inputs, outputs or ancestors of an output.
Needed(C) ==
    {r \in 1..Len(C.heap) :
        \/ InSeq(r, C.inputs)
        \/ \E o \in Range(C.outputs) : Reaches(C.heap, o, r, Len(C.heap))}

\* C20: after in_place_remove_unused_nodes the node list consists of
\* exactly the nodes that were inputs, outputs or ancestors of an output,
\* in their original relative order; the outgoing list of every surviving
\* node holds surviving nodes only; evaluate gives the same outputs on
\* every input as before the call.
C20_RemoveUnused ==
    last.op = "in_place_remove_unused_nodes" =>
       /\ Range(circ.nodes) = Needed(saved)
       /\ circ.nodes = SelectSeq(saved.nodes, LAMBDA r : r \in Needed(saved))
       /\ \A r \in Range(circ.nodes) :
             Range(NodeOf(r).outgoing) \subseteq Range(circ.nodes)
       /\ SameBehaviour(saved, circ)

\* C20 on a circuit whose node list holds its outputs and the incoming
\* nodes of its nodes (none was brought back by the node cache after its
\* removal): the statement of C20 holds.
C20_OnClosedNodeList ==
    /\ last.op = "in_place_remove_unused_nodes"
    /\ Range(saved.outputs) \subseteq Range(saved.nodes)
    /\ \A r \in Range(saved.nodes) :
          Range(saved.heap[r].incoming) \subseteq Range(saved.nodes)
    => C20_RemoveUnused

(***************************************************************************)
(* The memory cells of the serializer, checked under SpecSer.              *)
(***************************************************************************)
\* The nodes visit_all has visited in serializer state S.
VisitedIn(S) ==
    {circ.nodes[i] : i \in 1..(IF S.pos - 1 < Len(circ.nodes)
                                THEN S.pos - 1 ELSE Len(circ.nodes))}

\* A visited node is live in S while some of its outgoing uses has not been
\* visited; an output node stays live.
LiveIn(S, m) ==
    /\ m \in VisitedIn(S)
    /\ InSeq(m, circ.outputs) \/ S.n_used[m] < Len(NodeOf(m).outgoing)

\* C21: during the traversal of RawSerializer, right after an instruction
\* is emitted its destination cell belongs to exactly one live node (a node
\* is live from its visit until all its outgoing uses are visited, an
\* output node for ever); the cell of a parent returns to the free list
\* exactly when its use count reaches len(outgoing), never for an output
\* node and never twice.
C21_LiveCells ==
    [][ ser.phase = "visit" /\ ser.pos <= Len(circ.nodes)
        /\ NodeOf(circ.nodes[ser.pos]).op # "INPUT" /\ ser'.err = "" =>
          LET n      == circ.nodes[ser.pos]
              popped == IF ser.free = <<>> THEN <<>>
                        ELSE SubSeq(ser.free, 1, Len(ser.free) - 1)
              freed  == {m \in Range(NodeOf(n).incoming) :
                           /\ ser'.n_used[m] = Len(NodeOf(m).outgoing)
                           /\ ~InSeq(m, circ.outputs)}
          IN /\ Len(ser'.code) = Len(ser.code) + 1
             /\ ser'.code[Len(ser'.code)][2] = ser'.bit_id[n]
             \* the destination is the cell of no node live at the emission
             /\ \A m \in VisitedIn(ser) :
                   LiveIn(ser, m) => ser.bit_id[m] # ser'.bit_id[n]
             /\ \A m \in VisitedIn(ser') \ {n} :
                   LiveIn(ser', m) => ser'.bit_id[m] # ser'.bit_id[n]
             \* the free list gains the cells of the parents used up, once
             /\ Len(ser'.free) = Len(popped) + Cardinality(freed)
             /\ SubSeq(ser'.free, 1, Len(popped)) = popped
             /\ {ser'.free[i] : i \in (Len(popped) + 1)..Len(ser'.free)}
                   = {ser.bit_id[m] : m \in freed}
             /\ Distinct(ser'.free)
             /\ \A m \in VisitedIn(ser') :
                   LiveIn(ser', m) => ~InSeq(ser'.bit_id[m], ser'.free) ]_vars

\* A visit has emitted an instruction into a cell that an earlier node, by
\* then used up, had held, and freed the cell of a parent again.
C21_Witness ==
    /\ ser.phase = "visit" /\ ser.err = "" /\ ser.code # <<>>
    /\ ser.free # <<>>
    /\ \E m \in VisitedIn(ser) :
          /\ m # circ.nodes[ser.pos - 1]
          /\ ser.bit_id[m] = ser.code[Len(ser.code)][2]

(***************************************************************************)
(* Specification SpecRam: a client builds a circuit of inputs, AND and XOR *)
(* gates, large enough for y = (a AND b) XOR c, and serializes it.         *)
(***************************************************************************)
\* Node objects of the circuit.
RamMaxNodes == 5
\* Outputs of the circuit.
RamMaxOutputs == 1
\* Inputs of the circuit.
RamMaxInputs == 3

RamOps == {"AND", "XOR"}

RamAddInput ==
    /\ ser.phase = "idle"
    /\ Len(circ.heap) < RamMaxNodes
    /\ Len(circ.inputs) < RamMaxInputs
    /\ Construct("add_input", add_input(circ, NoName, {}))

\* A gate on two different nodes.
RamApplyOperation ==
    /\ ser.phase = "idle"
    /\ Len(circ.heap) < RamMaxNodes
    /\ \E op \in RamOps : \E x, y \in Range(circ.nodes) :
          /\ x # y
          /\ Construct(op, OperationCall(circ, op, "", 0,
                              <<NodeArg(x), NodeArg(y)>>, {}))

RamAddOutput ==
    /\ ser.phase = "idle"
    /\ Len(circ.outputs) < RamMaxOutputs
    /\ \E r \in Range(circ.nodes) :
          Construct("add_output", add_output(circ, NodeArg(r), {}))

RamNext ==
    \/ RamAddInput
    \/ RamApplyOperation
    \/ RamAddOutput
    \/ SerStart
    \/ SerVisitInput
    \/ SerVisitGeneric
    \/ SerAfterTransform

SpecRam == SerInit /\ [][RamNext]_vars

\* A node whose cell went back to the free list: a node that is not an
\* output and whose outgoing uses, at least one, have all been visited.
FreedIn(S, m) ==
    /\ ~InSeq(m, circ.outputs)
    /\ NodeOf(m).outgoing # <<>>
    /\ S.n_used[m] = Len(NodeOf(m).outgoing)

\* The cells allocated and not yet freed in S.
CellsInUse(S) == {S.bit_id[m] : m \in {v \in VisitedIn(S) : ~FreedIn(S, v)}}

\* The circuit y = (a AND b) XOR c: three inputs, the AND, the XOR.
IsAndXorCircuit ==
    /\ Len(circ.nodes) = 5 /\ circ.nodes = <<1, 2, 3, 4, 5>>
    /\ circ.inputs = <<1, 2, 3>>
    /\ NodeOf(4).op = "AND" /\ NodeOf(4).incoming = <<1, 2>>
    /\ NodeOf(5).op = "XOR" /\ NodeOf(5).incoming = <<4, 3>>
    /\ circ.outputs = <<5>>

\* C22: the ram_size of the serializer is the greatest number of cells
\* that are allocated and not yet freed at one time of the traversal (it
\* never falls short of that number, and it grows, by one, only when every
\* cell is in use); for y = (a AND b) XOR c built in that order the
\* serializer emits the 2 instructions AND, XOR and reports ram_size = 4.
C22_RamSize ==
    [][ /\ ser'.phase # "idle" =>
            /\ Cardinality(CellsInUse(ser')) <= ser'.ram_size
            /\ CellsInUse(ser') \subseteq 0..(ser'.ram_size - 1)
        /\ ser.phase = "visit" /\ ser'.ram_size # ser.ram_size =>
            /\ ser'.ram_size = ser.ram_size + 1
            /\ Cardinality(CellsInUse(ser)) = ser.ram_size
            /\ ser'.bit_id[circ.nodes[ser.pos]] = ser.ram_size
        /\ ser'.phase = "done" /\ ser'.err = "" => ser'.info[5] = ser'.ram_size
        /\ ser'.phase = "done" /\ IsAndXorCircuit =>
            /\ ser'.err = ""
            /\ Len(ser'.code) = 2
            /\ ser'.code[1][1] = 2 /\ ser'.code[2][1] = 1
            /\ ser'.info[3] = 2 /\ ser'.info[5] = 4 ]_vars

\* y = (a AND b) XOR c has been serialized.
C22_Witness ==
    IsAndXorCircuit /\ ser.phase = "done" /\ ser.err = "" /\ ser.info[5] = 4

(***************************************************************************)
(* Constant folding and the node cache of the optimized circuits, checked  *)
(* under SpecOpt.                                                          *)
(***************************************************************************)
\* C23: with constant precomputation enabled, a precomputable operation
\* applied to a non-empty list of incoming nodes that are all CONST returns
\* a CONST node whose value is the operation's eval on the constants'
\* values, and no node of that operation is added to the circuit.
C23_ConstantFolding ==
    /\ PRECOMPUTE_CONSTANT_OPERATIONS(circ)
    /\ last.op \in {"AND", "MUL"}
    /\ \A i \in DOMAIN last.args : NodeOf(last.args[i]).op = "CONST"
    => /\ last.ok
       /\ NodeOf(last.node).op = "CONST"
       /\ NodeOf(last.node).value =
             OpEval(last.op, [i \in DOMAIN last.args |-> NodeOf(last.args[i]).value],
                    circ.modulus)
       /\ \A r \in Range(circ.nodes) : NodeOf(r).op # last.op

(***************************************************************************)
(* Specification SpecKey: a client builds an optimized arithmetic circuit  *)
(* (node cache enabled) from inputs, ADD and SUB, and rewrites it in place *)
(* between the constructions.                                              *)
(***************************************************************************)
\* Node objects of the circuit.
KeyMaxNodes == 4
\* Inputs of the circuit.
KeyMaxInputs == 2

\* A symmetric and a non-symmetric operation.
KeyOps == {"ADD", "SUB"}

KeyInit ==
    /\ circ = NewCircuit("OptArithmeticCircuit", 3)
    /\ saved = NoCircuit
    /\ built = NoCircuit
    /\ last = Call("init", TRUE, "", 0)
    /\ ser = NoSer
    /\ blocks = <<>>

KeyAddInput ==
    /\ Len(circ.heap) < KeyMaxNodes
    /\ Len(circ.inputs) < KeyMaxInputs
    /\ \E dead \in DeadChoices :
          Construct("add_input", add_input(circ, NoName, dead))

\* C.ADD()(x, y) or C.SUB()(x, y); last.args keeps the operands.
KeyApplyOperation ==
    /\ Len(circ.heap) < KeyMaxNodes
    /\ \E op \in KeyOps, dead \in DeadChoices :
          \E x, y \in Usable :
             LET r == OperationCall(circ, op, "", 0, <<NodeArg(x), NodeArg(y)>>, dead)
             IN /\ circ' = r.circ
                /\ last' = [Call(op, r.ok, r.err, r.node) EXCEPT !.args = <<x, y>>]
                /\ saved' = NoCircuit
                /\ built' = NoCircuit
                /\ UNCHANGED <<ser, blocks>>

KeyNext ==
    \/ KeyAddInput
    \/ KeyApplyOperation
    \/ AddOutput
    \/ RemoveUnused
    \/ Renumerate
    \/ ReorderInputs
    \/ ReorderInputsFirst

SpecKey == KeyInit /\ [][KeyNext]_vars

\* The ids of a sequence of nodes of C, sorted when op is symmetric.
KeyIds(C, op, nodes) ==
    LET ids == [i \in DOMAIN nodes |-> C.heap[nodes[i]].id]
    IN IF SYMMETRIC(op) THEN SortSeq(ids, LAMBDA a, b : a < b) ELSE ids

\* The nodes of the node list of C that have operation op and the incoming
\* ids of the operands.
Existing(C, op, operands) ==
    {r \in Range(C.nodes) :
        /\ C.heap[r].op = op
        /\ KeyIds(C, op, C.heap[r].incoming) = KeyIds(C, op, operands)}

\* C24: with node caching enabled, an operation applied to incoming nodes
\* returns the existing node and adds no node whenever a node with an
\* equal operation cache key and the same incoming ids exists (the same
\* ids in any order for a symmetric operation, in the same order
\* otherwise); a non-symmetric operation applied to swapped operands gives
\* a distinct node.
C24_NodeCache ==
    [][ last'.op \in KeyOps =>
          /\ Existing(circ, last'.op, last'.args) # {} =>
                /\ last'.ok
                /\ last'.node \in Existing(circ, last'.op, last'.args)
                /\ circ'.nodes = circ.nodes
          /\ ~SYMMETRIC(last'.op) /\ last'.ok /\ last'.args[1] # last'.args[2] =>
                \A r \in Range(circ.nodes) :
                   circ.heap[r].op = last'.op
                   /\ circ.heap[r].incoming = <<last'.args[2], last'.args[1]>>
                   => last'.node # r ]_vars

\* C24 while the node cache holds every node of the node list under the
\* key of its present incoming ids (the ids have not been changed since
\* the nodes were created): the statement holds.
C24_OnCurrentKeys ==
    [][ (\A r \in Range(circ.nodes) :
            NodeCacheKey(circ, circ.heap[r].op, circ.heap[r].name,
                         circ.heap[r].value, circ.heap[r].incoming)
              = [ids |-> (CHOOSE e \in circ.nodes_cache : e.node = r).ids,
                 opkey |-> (CHOOSE e \in circ.nodes_cache : e.node = r).opkey]
            /\ \E e \in circ.nodes_cache : e.node = r)
        /\ last'.op \in KeyOps =>
             /\ Existing(circ, last'.op, last'.args) # {} =>
                   /\ last'.ok
                   /\ last'.node \in Existing(circ, last'.op, last'.args)
                   /\ circ'.nodes = circ.nodes
             /\ ~SYMMETRIC(last'.op) /\ last'.ok /\ last'.args[1] # last'.args[2] =>
                   \A r \in Range(circ.nodes) :
                      circ.heap[r].op = last'.op
                      /\ circ.heap[r].incoming = <<last'.args[2], last'.args[1]>>
                      => last'.node # r ]_vars

(***************************************************************************)
(* C25: the node keys after in_place_remove_duplicate_nodes.               *)
(***************************************************************************)
\* The key of a node in in_place_remove_duplicate_nodes.
DuplicateKey(C, r) ==
    <<OpCacheKey(C.heap[r].op, C.heap[r].name, C.heap[r].value), node_inc(C.heap, r)>>

\* C25: after in_place_remove_duplicate_nodes no two nodes of the node list
\* have the same key (operation cache key, incoming ids, sorted when the
\* operation is symmetric): the later node has been dropped and no node of
\* the list has it as an incoming node any more.
C25_NoDuplicateKeys ==
    last.op = "in_place_remove_duplicate_nodes" =>
       /\ last.ok
       /\ \A i, j \in DOMAIN circ.nodes :
             i < j => DuplicateKey(circ, circ.nodes[i]) # DuplicateKey(circ, circ.nodes[j])
       /\ \A j \in DOMAIN saved.nodes :
             (\E i \in 1..(j - 1) :
                 DuplicateKey(saved, saved.nodes[i]) = DuplicateKey(saved, saved.nodes[j]))
             => /\ ~InSeq(saved.nodes[j], circ.nodes)
                /\ \A r \in Range(circ.nodes) :
                      ~InSeq(saved.nodes[j], circ.heap[r].incoming)

(***************************************************************************)
(* C26: the random nodes of the ISW gadgets.                               *)
(***************************************************************************)
\* The number of RND nodes the gadgets of the source circuit S draw at
\* masking order d: d per CONST node, one per pair i < j of the d + 1 shares
\* per MUL or AND node.
GadgetDraws(S, d) ==
    d * Cardinality({i \in DOMAIN S.nodes : S.heap[S.nodes[i]].op = "CONST"})
    + (((d + 1) * d) \div 2)
        * Cardinality({i \in DOMAIN S.nodes : S.heap[S.nodes[i]].op \in {"MUL", "AND"}})

\* C26: in the circuit produced by the ISW transformer at order d, whatever
\* the flavor of the target circuit, every draw of a gadget (d per source
\* CONST, one per pair i < j per source MUL or AND) is a RND node of its
\* own: the draws are pairwise distinct and none is shared between gadgets.
C26_FreshRandomNodes ==
    last.op = "isw" /\ last.ok =>
       Cardinality(RndNodes(built)) = GadgetDraws(circ, last.args[1])

\* C26 for target circuits without node caching: the statement holds.
C26_WithoutNodeCache ==
    last.op = "isw" /\ last.ok /\ ~CACHE_NODES(built) =>
       Cardinality(RndNodes(built)) = GadgetDraws(circ, last.args[1])

(***************************************************************************)
(* Specification SpecInfo: a client builds a boolean circuit, registers    *)
(* inheritance policies, stores node info and rebuilds the circuit with    *)
(* reapply.                                                                *)
(***************************************************************************)
\* Node objects of the circuit whose nodes carry info.
InfoMaxNodes == 3
\* Outputs of the circuit whose nodes carry info.
InfoMaxOutputs == 1
\* The keys under which the client stores node info.
InfoKeys == {"k", "l"}

InfoInit ==
    /\ circ = NewCircuit("BooleanCircuit", 2)
    /\ saved = NoCircuit
    /\ built = NoCircuit
    /\ last = Call("init", TRUE, "", 0)
    /\ ser = NoSer
    /\ blocks = <<>>

InfoAddInput ==
    /\ last.op # "reapply"
    /\ Len(circ.heap) < InfoMaxNodes
    /\ Construct("add_input", add_input(circ, NoName, {}))

InfoApplyOperation ==
    /\ last.op # "reapply"
    /\ Len(circ.heap) < InfoMaxNodes
    /\ \E x \in Range(circ.nodes) :
          Construct("NOT", OperationCall(circ, "NOT", "", 0, <<NodeArg(x)>>, {}))

InfoAddOutput ==
    /\ last.op # "reapply"
    /\ Len(circ.outputs) < InfoMaxOutputs
    /\ \E r \in Range(circ.nodes) :
          Construct("add_output", add_output(circ, NodeArg(r), {}))

\* node.info.set_inheritance(key, only_output=b): the policy of the key is
\* replaced.
InfoSetInheritance ==
    /\ last.op # "reapply"
    /\ circ.nodes # <<>>
    /\ \E key \in InfoKeys, b \in BOOLEAN :
          /\ [key |-> key, only_output |-> b] \notin circ.inheritance
          /\ circ' = [circ EXCEPT !.inheritance =
                         {p \in @ : p.key # key} \cup {[key |-> key, only_output |-> b]}]
          /\ last' = Call("set_inheritance", TRUE, "", 0)
          /\ UNCHANGED <<saved, built, ser, blocks>>

\* node.info[key] = 1.
InfoSetItem ==
    /\ last.op # "reapply"
    /\ \E r \in Range(circ.nodes), key \in InfoKeys :
          /\ [node |-> r, key |-> key, value |-> 1] \notin circ.info
          /\ circ' = [circ EXCEPT !.info =
                         {e \in @ : ~(e.node = r /\ e.key = key)}
                         \cup {[node |-> r, key |-> key, value |-> 1]}]
          /\ last' = Call("info_setitem", TRUE, "", r)
          /\ UNCHANGED <<saved, built, ser, blocks>>

\* m = circ.reapply(circ.clone_empty()); the map m is kept in last.args.
InfoReapply ==
    /\ last.op # "reapply"
    /\ \E r \in {reapply(circ, clone_empty(circ), <<>>, TRUE)} :
          /\ built' = r.circ
          /\ last' = [Call("reapply", r.ok, r.err, 0) EXCEPT !.args = r.m]
          /\ UNCHANGED <<circ, saved, ser, blocks>>

InfoNext ==
    \/ InfoAddInput
    \/ InfoApplyOperation
    \/ InfoAddOutput
    \/ InfoSetInheritance
    \/ InfoSetItem
    \/ InfoReapply

SpecInfo == InfoInit /\ [][InfoNext]_vars

\* The node has info under the key.
HasInfo(C, r, key) == \E e \in C.info : e.node = r /\ e.key = key

\* C27: when Circuit.reapply copies a node into a target circuit, info under
\* a key whose policy has only_output is carried to the copy only if the
\* node is an output node, info under a key whose policy has not
\* only_output is always carried, and info under a key without a registered
\* policy is never carried.
C27_InfoInheritance ==
    last.op = "reapply" /\ last.ok =>
       \A r \in Range(circ.nodes) : \A key \in InfoKeys :
          HasInfo(circ, r, key) =>
             (HasInfo(built, last.args[r], key)
                <=> \E p \in circ.inheritance :
                       /\ p.key = key
                       /\ (p.only_output => InSeq(r, circ.outputs)))

\* C27 for the nodes that are outputs and the keys whose policy has not
\* only_output or that have no policy: the statement holds.
C27_OutputsAndPlainKeys ==
    last.op = "reapply" /\ last.ok =>
       \A r \in Range(circ.nodes) : \A key \in InfoKeys :
          /\ HasInfo(circ, r, key)
          /\ (InSeq(r, circ.outputs)
                \/ ~\E p \in circ.inheritance : p.key = key /\ p.only_output)
          => (HasInfo(built, last.args[r], key)
                <=> \E p \in circ.inheritance : p.key = key)

(***************************************************************************)
(* C28: the node returned by an operation call.                            *)
(***************************************************************************)
\* The node r has the operation op and the incoming nodes args, up to
\* order when op is symmetric.
IsApplication(C, r, op, args) ==
    /\ C.heap[r].op = op
    /\ \/ C.heap[r].incoming = args
       \/ SYMMETRIC(op) /\ C.heap[r].incoming = <<args[2], args[1]>>

\* C28: with node caching, after any sequence of constructions and in-place
\* rewrites, the node returned by applying an operation to incoming nodes
\* has that operation and those incoming nodes, up to order when the
\* operation is symmetric.
C28_ReturnedNode ==
    last.op \in KeyOps /\ last.ok =>
       IsApplication(circ, last.node, last.op, last.args)

(***************************************************************************)
(* Specification SpecVal: a client applies operations to nodes of the      *)
(* circuit, to literal values and to a node of another circuit, with the   *)
(* right and with a wrong number of arguments.                             *)
(***************************************************************************)
\* Node objects of the circuit.
ValMaxNodes == 3
\* Outputs of the circuit.
ValMaxOutputs == 1
\* The operations the client applies.
ValOps == {"AND", "NOT", "GET"}
\* The literal values the client passes: 2 is no boolean constant.
ValLiterals == {1, 2}
\* The input names the client uses.
ValInputNames == {"a", NoName}

ValInit ==
    /\ circ \in {NewCircuit(cls, 2) : cls \in BooleanFlavors}
    /\ saved = NoCircuit
    /\ built = NoCircuit
    /\ last = Call("init", TRUE, "", 0)
    /\ ser = NoSer
    /\ blocks = <<>>

\* Every call leaves the circuit as it was before the call in saved.
Validated(op, args, r) ==
    /\ circ' = r.circ
    /\ saved' = circ
    /\ last' = [Call(op, r.ok, r.err, r.node) EXCEPT !.args = args]
    /\ UNCHANGED <<built, ser, blocks>>

ValAddInput ==
    /\ Len(circ.heap) < ValMaxNodes
    /\ \E name \in ValInputNames :
          Validated("INPUT", <<>>, add_input(circ, name, {}))

ValAddOutput ==
    /\ Len(circ.outputs) < ValMaxOutputs
    /\ \E x \in Range(circ.nodes) :
          Validated("add_output", <<>>, add_output(circ, NodeArg(x), {}))

\* C.AND()(*args), C.NOT()(*args), C.GET(0)(*args) with 1 or 2 arguments.
ValApplyOperation ==
    /\ Len(circ.heap) < ValMaxNodes
    /\ \E op \in ValOps, n \in 1..2 :
          \E args \in Tuples({NodeArg(x) : x \in Range(circ.nodes)}
                              \cup {LitArg(v) : v \in ValLiterals}
                              \cup {ForeignArg}, n) :
             Validated(op, args, OperationCall(circ, op, "", 0, args, {}))

ValNext ==
    \/ ValAddInput
    \/ ValAddOutput
    \/ ValApplyOperation

SpecVal == ValInit /\ [][ValNext]_vars

\* The exceptions of the validation errors: TypeError (wrong number of
\* incoming nodes, node of another circuit, GET on a UNIT node), IndexError
\* (GET index out of range), KeyError (repeated input name).
ValidationErrors == {"TypeError", "IndexError", "KeyError"}

\* The node list, the input list, the output list and the node-id counter
\* of the two circuits are the same.
SameLists(C, D) ==
    /\ C.nodes = D.nodes
    /\ C.inputs = D.inputs
    /\ C.outputs = D.outputs
    /\ C.node_counter = D.node_counter

\* C29: when applying an operation fails with a validation error, the
\* circuit's node list, input list, output list and node-id counter are the
\* same as before the call, also when other arguments of the call are
\* literal values.
C29_FailedCallChangesNothing ==
    last.op \in ValOps \cup {"INPUT"} /\ ~last.ok /\ last.err \in ValidationErrors =>
       SameLists(circ, saved)

\* C29 for the calls whose arguments are all nodes: the statement holds.
C29_OnNodes ==
    /\ last.op \in ValOps \cup {"INPUT"} /\ ~last.ok /\ last.err \in ValidationErrors
    /\ (\A i \in DOMAIN last.args : last.args[i].kind # "lit")
    => SameLists(circ, saved)

(***************************************************************************)
(* Specification SpecLoc: a client builds a boolean circuit inside nested  *)
(* "with C.with_location(token):" blocks; a construction may raise, and    *)
(* the client catches the exception outside some of the blocks.            *)
(***************************************************************************)
\* Node objects of the circuit.
LocMaxNodes == 3
\* The deepest nesting of with_location blocks.
LocMaxDepth == 2
\* The longest location of the circuit.
LocMaxLocation == 3
\* The tokens the client passes to with_location.
LocTokens == {"f", "g"}

LocInit ==
    /\ circ = NewCircuit("BooleanCircuit", 2)
    /\ saved = NoCircuit
    /\ built = NoCircuit
    /\ last = Call("init", TRUE, "", 0)
    /\ ser = NoSer
    /\ blocks = <<>>

\* with_location up to the yield: prev_location = self.location;
\* self.location = self.location + (token,).
LocEnter ==
    /\ Len(blocks) < LocMaxDepth
    /\ Len(circ.location) < LocMaxLocation
    /\ \E token \in LocTokens :
          /\ blocks' = Append(blocks, [token |-> token, prev_location |-> circ.location])
          /\ circ' = [circ EXCEPT !.location = Append(@, token)]
          /\ last' = Call("enter", TRUE, "", 0)
          /\ UNCHANGED <<saved, built, ser>>

\* The body of the innermost block ends without an exception: the
\* generator resumes after the yield, self.location = prev_location.
LocExit ==
    /\ blocks # <<>>
    /\ blocks' = SubSeq(blocks, 1, Len(blocks) - 1)
    /\ circ' = [circ EXCEPT !.location = blocks[Len(blocks)].prev_location]
    /\ last' = Call("exit", TRUE, "", 0)
    /\ UNCHANGED <<saved, built, ser>>

LocAddInput ==
    /\ Len(circ.heap) < LocMaxNodes
    /\ circ.inputs = <<>>
    /\ LET r == add_input(circ, NoName, {})
       IN /\ circ' = r.circ
          /\ last' = Call("add_input", r.ok, r.err, r.node)
          /\ UNCHANGED <<saved, built, ser, blocks>>

\* C.NOT()(*args) with 1 or 2 arguments; the call with 2 arguments raises
\* TypeError.  The exception is thrown into the generator of every block it
\* leaves, at the yield: the statement after the yield is not executed.
\* The client catches the exception outside the n innermost blocks.
LocApplyOperation ==
    /\ Len(circ.heap) < LocMaxNodes
    /\ \E k \in 1..2 : \E args \in Tuples(Range(circ.nodes), k) :
          LET r == OperationCall(circ, "NOT", "", 0,
                                 [i \in DOMAIN args |-> NodeArg(args[i])], {})
          IN /\ circ' = r.circ
             /\ last' = Call("NOT", r.ok, r.err, r.node)
             /\ IF r.ok THEN blocks' = blocks
                ELSE \E n \in 0..Len(blocks) :
                       blocks' = SubSeq(blocks, 1, Len(blocks) - n)
             /\ UNCHANGED <<saved, built, ser>>

LocNext ==
    \/ LocEnter
    \/ LocExit
    \/ LocAddInput
    \/ LocApplyOperation

SpecLoc == LocInit /\ [][LocNext]_vars

\* C30: a node created inside a with_location(token) block carries the
\* location that enclosed the block extended by the token, and whenever
\* blocks are left -- normally or because a construction inside raised an
\* error -- the circuit's current location equals the location before the
\* outermost of the blocks left was entered, at any nesting depth.
C30_WithLocation ==
    [][ /\ (Len(circ'.heap) > Len(circ.heap) /\ blocks # <<>> =>
               circ'.heap[Len(circ'.heap)].location
                 = Append(blocks[Len(blocks)].prev_location, blocks[Len(blocks)].token))
        /\ (Len(blocks') < Len(blocks) =>
               circ'.location = blocks[Len(blocks') + 1].prev_location) ]_vars

\* The location of the circuit is the list of the tokens of the open blocks
\* and every block holds the tokens of the blocks around it.
LocationInStep ==
    /\ circ.location = [i \in DOMAIN blocks |-> blocks[i].token]
    /\ \A i \in DOMAIN blocks :
          blocks[i].prev_location = [j \in 1..(i - 1) |-> blocks[j].token]

\* C30 for the blocks left without an exception, as long as no block has
\* been left by an exception: the statement holds.
C30_NormalExit ==
    [][ LocationInStep /\ (last'.ok \/ blocks' = blocks) =>
          /\ (Len(circ'.heap) > Len(circ.heap) /\ blocks # <<>> =>
                 circ'.heap[Len(circ'.heap)].location
                   = Append(blocks[Len(blocks)].prev_location, blocks[Len(blocks)].token))
          /\ (Len(blocks') < Len(blocks) =>
                 circ'.location = blocks[Len(blocks') + 1].prev_location) ]_vars

====
